---- MODULE Spec2Model ----
(***************************************************************************)
(* KeepWise valuation and return engine (investment_analytics.rs,          *)
(* wealth_analytics.rs): window resolution, Modified Dietz return          *)
(* calculation, the as-of (forward-fill) aggregator, the snapshot pickers  *)
(* and return queries over the investment_records table, and the writers   *)
(* of that table (record_mutations.rs, yzxy_import.rs).                    *)
(*                                                                         *)
(* Dates (chrono::NaiveDate) are day numbers of the proleptic Gregorian    *)
(* calendar, counted from 1970-01-01.  Date texts ("%Y-%m-%d") are the     *)
(* triples <<year, month, day>>; the empty text is <<>>.  f64 values are   *)
(* exact rationals in lowest terms (records [n, d] with d > 0): the model  *)
(* abstracts from IEEE rounding error, nothing else.                       *)
(***************************************************************************)
EXTENDS Integers, Sequences, FiniteSets, TLC

VARIABLES request, response, investment_records, accounts, import_jobs, query,
          store_history, write_count, account_valuations

\* the tables of the ledger database, the reads of the query in flight, the
\* states investment_records went through while it ran and the number of
\* write requests served
ledger_vars ==
    <<investment_records, accounts, import_jobs, query, store_history, write_count,
      account_valuations>>

vars == <<request, response, investment_records, accounts, import_jobs, query,
          store_history, write_count, account_valuations>>

\* no query in flight
NoQuery == [pc |-> "idle"]

\* a ledger without investment records, as the calls on values alone leave it
NoLedger ==
    /\ investment_records = {}
    /\ accounts = {}
    /\ import_jobs = <<>>
    /\ query = NoQuery
    /\ store_history = {}
    /\ write_count = 0
    /\ account_valuations = {}

(***************************************************************************)
(* Bounds of the model.                                                    *)
(***************************************************************************)
\* how many of the sample dates are used as earliest/latest/from/to inputs
MaxWindowDates == 5
\* how many cash flows one return calculation receives at most
MaxFlows == 2
\* how many of the sample dates are used by the return calculation
MaxDietzDates == 4
\* how many history rows one aggregation receives at most
MaxRows == 2
\* how many of the sample dates are used by the aggregator
MaxAsofDates == 3
\* how many of the sample dates the records and queries of a ledger use
MaxLedgerDates == 3

(***************************************************************************)
(* chrono::NaiveDate                                                       *)
(***************************************************************************)
IsLeapYear(y) == (y % 4 = 0 /\ y % 100 # 0) \/ y % 400 = 0

DaysInMonth(y, m) ==
    IF m \in {4, 6, 9, 11} THEN 30
    ELSE IF m = 2 THEN (IF IsLeapYear(y) THEN 29 ELSE 28)
    ELSE 31

\* NaiveDate::from_ymd_opt: the day number of a valid calendar date
DaysFromCivil(y, m, d) ==
    LET yy  == IF m <= 2 THEN y - 1 ELSE y
        era == yy \div 400
        yoe == yy - era * 400
        mp  == IF m > 2 THEN m - 3 ELSE m + 9
        doy == (153 * mp + 2) \div 5 + d - 1
        doe == yoe * 365 + yoe \div 4 - yoe \div 100 + doy
    IN  era * 146097 + doe - 719468

\* Datelike::year/month/day of a day number, as the triple <<y, m, d>>
\* (each step is handed the values of the steps before it)
CivilOfMonth(era, yoe, doy, mp) ==
    <<yoe + era * 400 + (IF mp < 10 THEN 0 ELSE 1),
      IF mp < 10 THEN mp + 3 ELSE mp - 9,
      doy - (153 * mp + 2) \div 5 + 1>>

CivilOfDayOfYear(era, yoe, doy) == CivilOfMonth(era, yoe, doy, (5 * doy + 2) \div 153)

CivilOfYearOfEra(era, doe, yoe) ==
    CivilOfDayOfYear(era, yoe, doe - (365 * yoe + yoe \div 4 - yoe \div 100))

CivilOfDayOfEra(era, doe) ==
    CivilOfYearOfEra(era, doe,
        (doe - doe \div 1460 + doe \div 36524 - doe \div 146096) \div 365)

CivilOfEra(z, era) == CivilOfDayOfEra(era, z - era * 146097)

CivilFromDays(z0) == CivilOfEra(z0 + 719468, (z0 + 719468) \div 146097)

YearOf(date) == CivilFromDays(date)[1]

\* date.format("%Y-%m-%d").to_string()
FormatDate(date) == CivilFromDays(date)

\* (a - b).num_days()
NumDays(a, b) == a - b

(***************************************************************************)
(* Result<T, String> and Option<T>                                         *)
(***************************************************************************)
Ok(v) == [ok |-> TRUE, val |-> v]
Err(msg) == [ok |-> FALSE, err |-> msg]
None == [some |-> FALSE]
Some(v) == [some |-> TRUE, val |-> v]

\* parse_iso_date: the messages are
\*   "missing field: <field>"            (text empty after trim)
\*   "<field> must be YYYY-MM-DD"        (text is no calendar date)
parse_iso_date(raw, field_name) ==
    IF raw = <<>> THEN Err(<<"missing field", field_name>>)
    ELSE IF /\ raw[2] \in 1..12
            /\ raw[3] \in 1..DaysInMonth(raw[1], raw[2])
         THEN Ok(DaysFromCivil(raw[1], raw[2], raw[3]))
         ELSE Err(<<"date format must be YYYY-MM-DD", field_name>>)

SUPPORTED_PRESETS == {"ytd", "1y", "3y", "since_inception", "custom"}

(***************************************************************************)
(* Window Resolver                                                         *)
(***************************************************************************)
\* requested_from_of with the 1y preset reaching back 366 days
requested_from_of_1y_366(preset, from_raw, effective_to, earliest) ==
    CASE preset = "custom" -> parse_iso_date(from_raw, "from")
      [] preset = "ytd" -> Ok(DaysFromCivil(YearOf(effective_to), 1, 1))
      [] preset = "1y" -> Ok(effective_to - 366)
      [] preset = "3y" -> Ok(effective_to - 365 * 3)
      [] preset = "since_inception" -> Ok(earliest)
      [] OTHER -> Err(<<"preset not supported", preset>>)

\* the preset's start date, before clipping (match preset { ... })
requested_from_of(preset, from_raw, effective_to, earliest) ==
    CASE preset = "custom" -> parse_iso_date(from_raw, "from")
      [] preset = "ytd" -> Ok(DaysFromCivil(YearOf(effective_to), 1, 1))
      [] preset = "1y" -> Ok(effective_to - 365)
      [] preset = "3y" -> Ok(effective_to - 365 * 3)
      [] preset = "since_inception" -> Ok(earliest)
      [] OTHER -> Err(<<"preset not supported", preset>>)

\* max(requested_from, earliest)
clip_from(requested_from, earliest) ==
    IF requested_from > earliest THEN requested_from ELSE earliest

\* clip_to without the clipping
clip_to_unclipped(requested_to, latest) == requested_to

\* min(requested_to, latest)
clip_to(requested_to, latest) ==
    IF requested_to < latest THEN requested_to ELSE latest

\* resolve_window without its final from-after-to check
resolve_window_unordered(preset, from_raw, to_raw, earliest, latest) ==
    LET requested_to == IF to_raw = <<>> THEN Ok(latest)
                        ELSE parse_iso_date(to_raw, "to")
    IN  IF ~requested_to.ok THEN requested_to
        ELSE
        LET effective_to == clip_to(requested_to.val, latest)
        IN  IF effective_to < earliest
            THEN Err(<<"end date precedes the earliest available record">>)
            ELSE
            LET requested_from ==
                    requested_from_of(preset, from_raw, effective_to, earliest)
            IN  IF ~requested_from.ok THEN requested_from
                ELSE Ok([requested_from |-> requested_from.val,
                         effective_from |-> clip_from(requested_from.val, earliest),
                         effective_to   |-> effective_to,
                         latest         |-> latest])

resolve_window(preset, from_raw, to_raw, earliest, latest) ==
    IF latest < earliest THEN Err(<<"no usable time range">>)
    ELSE
    LET requested_to == IF to_raw = <<>> THEN Ok(latest)
                        ELSE parse_iso_date(to_raw, "to")
    IN  IF ~requested_to.ok THEN requested_to
        ELSE
        LET effective_to == clip_to(requested_to.val, latest)
        IN  IF effective_to < earliest
            THEN Err(<<"end date precedes the earliest available record">>)
            ELSE
            LET requested_from ==
                    requested_from_of(preset, from_raw, effective_to, earliest)
            IN  IF ~requested_from.ok THEN requested_from
                ELSE
                LET effective_from == clip_from(requested_from.val, earliest)
                IN  IF effective_from > effective_to
                    THEN Err(<<"start date is after the end date">>)
                    ELSE Ok([requested_from |-> requested_from.val,
                             effective_from |-> effective_from,
                             effective_to   |-> effective_to,
                             latest         |-> latest])

(***************************************************************************)
(* f64 arithmetic, in exact rationals                                      *)
(***************************************************************************)
Abs(x) == IF x < 0 THEN -x ELSE x

RECURSIVE GCD(_, _)
GCD(a, b) == IF b = 0 THEN a ELSE GCD(b, a % b)

\* n/d (d # 0) in lowest terms, with a positive denominator
Q(n, d) ==
    LET g == GCD(Abs(n), Abs(d))
        s == IF d < 0 THEN -1 ELSE 1
    IN  [n |-> s * (n \div g), d |-> s * (d \div g)]

\* cents as f64
QInt(i) == [n |-> i, d |-> 1]

QAdd(a, b) ==
    LET l == (a.d \div GCD(a.d, b.d)) * b.d
    IN  Q(a.n * (l \div a.d) + b.n * (l \div b.d), l)

QMul(a, b) == Q(a.n * b.n, a.d * b.d)

\* a / b for b # 0
QDiv(a, b) == Q(a.n * b.d, a.d * b.n)

QLeZero(a) == a.n <= 0

QGtZero(a) == a.n > 0

\* f64::round: to the nearest integer, halves away from zero
QRound(a) ==
    IF a.n >= 0 THEN (2 * a.n + a.d) \div (2 * a.d)
    ELSE -((2 * (-a.n) + a.d) \div (2 * a.d))

\* round_to(value, 6)
round_to_6(value) == Q(QRound(QMul(value, QInt(1000000))), 1000000)

\* base.powf(exponent) - 1.0, kept as a term: a fractional power of a
\* rational is in general not rational
PowfMinusOne(base, exponent) == [base |-> base, exponent |-> exponent]

\* cents_to_yuan_text: format!("{:.2}", cents as f64 / 100.0), as
\* <<sign, yuan digits, fen digits>>
cents_to_yuan_text(cents) ==
    <<IF cents < 0 THEN "-" ELSE "", Abs(cents) \div 100, Abs(cents) % 100>>

(***************************************************************************)
(* Return Calculator (Modified Dietz)                                      *)
(***************************************************************************)
WEIGHTED_CAPITAL_NOTE == "weighted capital is <= 0, no cash-weighted return rate"

\* flow_rows.iter().map(|r| r.transfer_amount_cents).sum::<i64>()
RECURSIVE sum_transfer_amounts(_)
sum_transfer_amounts(flow_rows) ==
    IF flow_rows = <<>> THEN 0
    ELSE Head(flow_rows).transfer_amount_cents + sum_transfer_amounts(Tail(flow_rows))

\* flow_weight by the days elapsed since begin_date, not the days remaining
flow_weight_elapsed(row, end_date, interval_days) ==
    IF interval_days > 0
    THEN Q(interval_days - NumDays(end_date, row.snapshot_date), interval_days)
    ELSE QInt(0)

\* the weight of one flow: the share of the interval it was invested
flow_weight(row, end_date, interval_days) ==
    IF interval_days > 0
    THEN Q(NumDays(end_date, row.snapshot_date), interval_days)
    ELSE QInt(0)

\* the loop over flow_rows: weighted_flow after the first k rows
RECURSIVE weighted_flow_upto(_, _, _, _)
weighted_flow_upto(flow_rows, k, end_date, interval_days) ==
    IF k = 0 THEN QInt(0)
    ELSE LET row == flow_rows[k]
             before == weighted_flow_upto(flow_rows, k - 1, end_date, interval_days)
         IN  IF row.transfer_amount_cents = 0 THEN before
             ELSE QAdd(before, QMul(QInt(row.transfer_amount_cents),
                                    flow_weight(row, end_date, interval_days)))

\* the loop over flow_rows: the cash_flows entries pushed for the first k rows
RECURSIVE cash_flows_upto(_, _, _, _)
cash_flows_upto(flow_rows, k, end_date, interval_days) ==
    IF k = 0 THEN <<>>
    ELSE LET row == flow_rows[k]
             before == cash_flows_upto(flow_rows, k - 1, end_date, interval_days)
         IN  IF row.transfer_amount_cents = 0 THEN before
             ELSE Append(before,
                    [snapshot_date |-> FormatDate(row.snapshot_date),
                     transfer_amount_cents |-> row.transfer_amount_cents,
                     transfer_amount_yuan |->
                         cents_to_yuan_text(row.transfer_amount_cents),
                     weight |-> round_to_6(flow_weight(row, end_date, interval_days))])

\* dietz_rates without the zero-interval case: the rate is always the quotient
dietz_rates_no_zero_case(interval_days, profit_cents, denominator) ==
    IF QLeZero(denominator)
    THEN <<None, None, WEIGHTED_CAPITAL_NOTE>>
    ELSE <<Some(QDiv(QInt(profit_cents), denominator)), None, "">>

\* dietz_rates dividing the profit by the capital at the end of the interval
dietz_rates_over_end_capital(interval_days, profit_cents, denominator) ==
    IF interval_days = 0
    THEN IF QLeZero(denominator)
         THEN <<None, None, WEIGHTED_CAPITAL_NOTE>>
         ELSE <<Some(QInt(0)), None, "">>
    ELSE IF QLeZero(denominator) \/ QLeZero(QAdd(denominator, QInt(profit_cents)))
         THEN <<None, None, WEIGHTED_CAPITAL_NOTE>>
         ELSE LET rr == QDiv(QInt(profit_cents),
                             QAdd(denominator, QInt(profit_cents)))
              IN  <<Some(rr), None, "">>

\* dietz_rates annualizing whenever 1 + rr >= 0
dietz_rates_annualize_zero_base(interval_days, profit_cents, denominator) ==
    IF interval_days = 0
    THEN IF QLeZero(denominator)
         THEN <<None, None, WEIGHTED_CAPITAL_NOTE>>
         ELSE <<Some(QInt(0)), None, "">>
    ELSE IF QLeZero(denominator)
         THEN <<None, None, WEIGHTED_CAPITAL_NOTE>>
         ELSE LET rr == QDiv(QInt(profit_cents), denominator)
                  annualized ==
                      IF ~QGtZero(QAdd(QInt(1), rr)) /\ QAdd(QInt(1), rr).n # 0
                      THEN None
                      ELSE Some(PowfMinusOne(QAdd(QInt(1), rr), Q(365, interval_days)))
              IN  <<Some(rr), annualized, "">>

\* (return_rate, annualized_rate, note) from the interval, profit and denominator
dietz_rates(interval_days, profit_cents, denominator) ==
    IF interval_days = 0
    THEN IF QLeZero(denominator)
         THEN <<None, None, WEIGHTED_CAPITAL_NOTE>>
         ELSE <<Some(QInt(0)), None, "">>
    ELSE IF QLeZero(denominator)
         THEN <<None, None, WEIGHTED_CAPITAL_NOTE>>
         ELSE LET rr == QDiv(QInt(profit_cents), denominator)
                  annualized ==
                      IF QGtZero(QAdd(QInt(1), rr))
                      THEN Some(PowfMinusOne(QAdd(QInt(1), rr), Q(365, interval_days)))
                      ELSE None
              IN  <<Some(rr), annualized, "">>

\* calculate_modified_dietz with the begin value alone as the capital base
calculate_modified_dietz_unweighted(begin_date, end_date, begin_assets_cents, end_assets_cents, flow_rows, allow_zero_interval) ==
    LET interval_days == NumDays(end_date, begin_date)
    IN  IF interval_days < 0
        THEN Err(<<"end date must not precede the begin date">>)
        ELSE IF interval_days = 0 /\ ~allow_zero_interval
        THEN Err(<<"not enough valid snapshots in range to compute a return">>)
        ELSE
        LET net_flow_cents == sum_transfer_amounts(flow_rows)
            profit_cents == end_assets_cents - begin_assets_cents - net_flow_cents
            denominator == QInt(begin_assets_cents)
            rates == dietz_rates(interval_days, profit_cents, denominator)
        IN  Ok([interval_days |-> interval_days,
                net_flow_cents |-> net_flow_cents,
                profit_cents |-> profit_cents,
                weighted_capital_cents |-> QRound(denominator),
                return_rate |-> rates[1],
                annualized_rate |-> rates[2],
                note |-> rates[3],
                cash_flows |->
                    cash_flows_upto(flow_rows, Len(flow_rows), end_date, interval_days)])

\* calculate_modified_dietz computing over an empty interval whatever the flag
calculate_modified_dietz_zero_allowed(begin_date, end_date, begin_assets_cents, end_assets_cents, flow_rows, allow_zero_interval) ==
    LET interval_days == NumDays(end_date, begin_date)
    IN  IF interval_days < 0
        THEN Err(<<"end date must not precede the begin date">>)
        ELSE
        LET net_flow_cents == sum_transfer_amounts(flow_rows)
            profit_cents == end_assets_cents - begin_assets_cents - net_flow_cents
            weighted_flow ==
                weighted_flow_upto(flow_rows, Len(flow_rows), end_date, interval_days)
            denominator == QAdd(QInt(begin_assets_cents), weighted_flow)
            rates == dietz_rates(interval_days, profit_cents, denominator)
        IN  Ok([interval_days |-> interval_days,
                net_flow_cents |-> net_flow_cents,
                profit_cents |-> profit_cents,
                weighted_capital_cents |-> QRound(denominator),
                return_rate |-> rates[1],
                annualized_rate |-> rates[2],
                note |-> rates[3],
                cash_flows |->
                    cash_flows_upto(flow_rows, Len(flow_rows), end_date, interval_days)])

calculate_modified_dietz(begin_date, end_date, begin_assets_cents, end_assets_cents, flow_rows, allow_zero_interval) ==
    LET interval_days == NumDays(end_date, begin_date)
    IN  IF interval_days < 0
        THEN Err(<<"end date must not precede the begin date">>)
        ELSE IF interval_days = 0 /\ ~allow_zero_interval
        THEN Err(<<"not enough valid snapshots in range to compute a return">>)
        ELSE
        LET net_flow_cents == sum_transfer_amounts(flow_rows)
            profit_cents == end_assets_cents - begin_assets_cents - net_flow_cents
            weighted_flow ==
                weighted_flow_upto(flow_rows, Len(flow_rows), end_date, interval_days)
            denominator == QAdd(QInt(begin_assets_cents), weighted_flow)
            rates == dietz_rates(interval_days, profit_cents, denominator)
        IN  Ok([interval_days |-> interval_days,
                net_flow_cents |-> net_flow_cents,
                profit_cents |-> profit_cents,
                weighted_capital_cents |-> QRound(denominator),
                return_rate |-> rates[1],
                annualized_rate |-> rates[2],
                note |-> rates[3],
                cash_flows |->
                    cash_flows_upto(flow_rows, Len(flow_rows), end_date, interval_days)])

(***************************************************************************)
(* As-Of Aggregator (build_portfolio_asof_totals, build_asof_totals)       *)
(***************************************************************************)
\* by_account.entry(account_id).or_default().push(row): the rows of one
\* account, in the order of history_rows
series_of(history_rows, account_id) ==
    SelectSeq(history_rows, LAMBDA r : r.account_id = account_id)

\* the keys of by_account
accounts_of(history_rows) ==
    {history_rows[i].account_id : i \in DOMAIN history_rows}

\* series.sort_by_key left out: the series is walked in the order supplied
sort_by_snapshot_date_none(series) == series

\* series.sort_by_key(|r| r.snapshot_date): a stable sort
RECURSIVE sort_by_snapshot_date(_)
sort_by_snapshot_date(series) ==
    IF series = <<>> THEN <<>>
    ELSE LET h == Head(series)
             rest == sort_by_snapshot_date(Tail(series))
             before == SelectSeq(rest, LAMBDA r : r.snapshot_date < h.snapshot_date)
             after == SelectSeq(rest, LAMBDA r : r.snapshot_date >= h.snapshot_date)
         IN  before \o <<h>> \o after

\* next_current keeping a positive current value at every row of value 0
next_current_any_zero(current, row) ==
    IF row.value_cents = 0 /\ current > 0
    THEN current
    ELSE row.value_cents

\* the value held after the row at idx: a row of value 0 with a nonzero flow
\* keeps a positive current value, every other row replaces it
next_current(current, row) ==
    IF row.value_cents = 0 /\ row.flow_cents # 0 /\ current > 0
    THEN current
    ELSE row.value_cents

\* advance_cursor taking only the rows dated before d
RECURSIVE advance_cursor_strict(_, _, _, _)
advance_cursor_strict(series, idx, current, d) ==
    IF idx < Len(series) /\ series[idx + 1].snapshot_date < d
    THEN advance_cursor_strict(series, idx + 1,
                               next_current(current, series[idx + 1]), d)
    ELSE [idx |-> idx, current |-> current]

\* the while loop: consume the rows dated at or before d; idx counts the rows
\* consumed so far
RECURSIVE advance_cursor(_, _, _, _)
advance_cursor(series, idx, current, d) ==
    IF idx < Len(series) /\ series[idx + 1].snapshot_date <= d
    THEN advance_cursor(series, idx + 1, next_current(current, series[idx + 1]), d)
    ELSE [idx |-> idx, current |-> current]

\* cursor_after starting from the value of the first row instead of zero
RECURSIVE cursor_after_backfill(_, _, _)
cursor_after_backfill(series, dates, j) ==
    IF j = 0
    THEN [idx |-> 0,
          current |-> IF series = <<>> THEN 0 ELSE series[1].value_cents]
    ELSE LET prev == cursor_after_backfill(series, dates, j - 1)
         IN  advance_cursor(series, prev.idx, prev.current, dates[j])

\* (idx, current) after the first j reference dates
RECURSIVE cursor_after(_, _, _)
cursor_after(series, dates, j) ==
    IF j = 0 THEN [idx |-> 0, current |-> 0]
    ELSE LET prev == cursor_after(series, dates, j - 1)
         IN  advance_cursor(series, prev.idx, prev.current, dates[j])

\* what one series adds to totals[key] over the first j reference dates
RECURSIVE series_added(_, _, _, _)
series_added(series, dates, j, key) ==
    IF j = 0 THEN 0
    ELSE series_added(series, dates, j - 1, key)
         + (IF FormatDate(dates[j]) = key
            THEN cursor_after(series, dates, j).current
            ELSE 0)

\* for series in by_account.values_mut(): totals[key] over a set of accounts
RECURSIVE total_over(_, _, _, _)
total_over(account_ids, history_rows, dates, key) ==
    IF account_ids = {} THEN 0
    ELSE LET a == CHOOSE x \in account_ids : TRUE
             series == sort_by_snapshot_date(series_of(history_rows, a))
         IN  series_added(series, dates, Len(dates), key)
             + total_over(account_ids \ {a}, history_rows, dates, key)

\* the HashMap from the text of each reference date to the as-of total
build_portfolio_asof_totals(dates, history_rows) ==
    [key \in {FormatDate(dates[j]) : j \in DOMAIN dates} |->
        total_over(accounts_of(history_rows), history_rows, dates, key)]

\* for series in by_account.values_mut(), with the iteration order of the
\* HashMap made explicit: totals[key] over the first k accounts of visit_order
RECURSIVE total_visiting(_, _, _, _, _)
total_visiting(visit_order, k, history_rows, dates, key) ==
    IF k = 0 THEN 0
    ELSE total_visiting(visit_order, k - 1, history_rows, dates, key)
         + series_added(sort_by_snapshot_date(series_of(history_rows, visit_order[k])),
                        dates, Len(dates), key)

\* build_portfolio_asof_totals when by_account iterates in visit_order
build_asof_totals_visiting(dates, history_rows, visit_order) ==
    [key \in {FormatDate(dates[j]) : j \in DOMAIN dates} |->
        total_visiting(visit_order, Len(visit_order), history_rows, dates, key)]

\* wealth_analytics.rs holds the same aggregator for the rows of one asset class
build_asof_totals(dates, history_rows) ==
    build_portfolio_asof_totals(dates, history_rows)

(***************************************************************************)
(* Sample dates                                                            *)
(***************************************************************************)
Take(s, n) == {s[i] : i \in 1..(IF n < Len(s) THEN n ELSE Len(s))}

WindowDateTexts ==
    << <<2024, 1, 1>>, <<2026, 3, 31>>, <<2026, 2, 10>>, <<2025, 3, 31>>,
       <<2026, 1, 1>>, <<2023, 5, 20>>, <<2024, 2, 29>> >>

\* the texts a request carries in from/to: omitted, a date, or no date at all
WindowRawTexts ==
    {<<>>, <<2026, 2, 30>>} \cup Take(WindowDateTexts, MaxWindowDates)

\* the snapshot dates a scope can have as its earliest and latest
WindowDates ==
    {DaysFromCivil(t[1], t[2], t[3]) : t \in Take(WindowDateTexts, MaxWindowDates)}

DietzDateTexts ==
    << <<2026, 1, 1>>, <<2026, 6, 30>>, <<2026, 4, 1>>, <<2025, 12, 31>>,
       <<2026, 3, 1>> >>

\* the snapshot dates of the return calculation's begin, end and flows
DietzDates ==
    {DaysFromCivil(t[1], t[2], t[3]) : t \in Take(DietzDateTexts, MaxDietzDates)}

\* total_assets_cents of a snapshot, or an as-of total
AssetValues == {-1, 0, 1, 100000, 120000}

\* transfer_amount_cents of the rows load_transfer_rows returns: never 0
FlowAmounts == {-10000, 1, 10000}

RECURSIVE SortedSeqOf(_)
SortedSeqOf(S) ==
    IF S = {} THEN <<>>
    ELSE LET m == CHOOSE x \in S : \A y \in S : x <= y
         IN  <<m>> \o SortedSeqOf(S \ {m})

\* what the callers pass as flow_rows: the nonzero flows dated in
\* (begin_date, end_date], one per date, in ascending date order
FlowLists(begin_date, end_date) ==
    LET in_range == {d \in DietzDates : d > begin_date /\ d <= end_date}
        chosen == {S \in SUBSET in_range : Cardinality(S) <= MaxFlows}
    IN  UNION {
            {[i \in 1..Cardinality(S) |->
                 [snapshot_date |-> SortedSeqOf(S)[i],
                  transfer_amount_cents |-> amount[SortedSeqOf(S)[i]]]] :
                amount \in [S -> FlowAmounts]} : S \in chosen}

AsofDateTexts ==
    << <<2026, 1, 31>>, <<2026, 2, 28>>, <<2026, 3, 31>>, <<2025, 12, 31>> >>

\* the dates of the snapshots and of the reference list
AsofDates ==
    {DaysFromCivil(t[1], t[2], t[3]) : t \in Take(AsofDateTexts, MaxAsofDates)}

AccountIds == {"acct_a", "acct_b"}

\* the order of the account ids as texts
AccountRank(account_id) == IF account_id = "acct_a" THEN 1 ELSE 2

\* value_cents and flow_cents of a history row
HistoryValues == {-5, 0, 7}
HistoryFlows == {0, 3}

\* reference date lists: sorted, without duplicates, not empty
ReferenceDateLists == {SortedSeqOf(S) : S \in (SUBSET AsofDates) \ {{}}}

\* the rows of a history query: at most one per (account_id, snapshot_date),
\* ORDER BY account_id, snapshot_date
RECURSIVE RowsInOrder(_, _)
RowsInOrder(keys, content) ==
    IF keys = {} THEN <<>>
    ELSE LET first ==
                 CHOOSE k \in keys : \A o \in keys :
                     \/ k[1] = o[1] /\ k[2] <= o[2]
                     \/ AccountRank(k[1]) < AccountRank(o[1])
         IN  <<[account_id |-> first[1], snapshot_date |-> first[2],
                value_cents |-> content[first][1],
                flow_cents |-> content[first][2]]>>
             \o RowsInOrder(keys \ {first}, content)

HistoryRowLists ==
    UNION {{RowsInOrder(keys, content) :
               content \in [keys -> HistoryValues \X HistoryFlows]} :
           keys \in {K \in SUBSET (AccountIds \X AsofDates) : Cardinality(K) <= MaxRows}}

(***************************************************************************)
(* investment_records: the snapshot pickers and the return queries         *)
(*                                                                         *)
(* A row of investment_records is a record [id, account_id, snapshot_date, *)
(* date_form, total_assets_cents, transfer_amount_cents, source_type].     *)
(* The table stores snapshot_date as text and the statements compare and   *)
(* order the texts; a text read from the table is parsed into a date.      *)
(* Every operator takes the rows its statements read as the argument       *)
(* records.                                                                *)
(***************************************************************************)
\* A snapshot_date text as the table stores it: the date it denotes and
\* whether month and day are zero-padded.  NaiveDate::parse_from_str reads
\* "2026-1-31" and "2026-01-31" as the same date.
Padded(d) == [date |-> d, form |-> "padded"]

\* whether a month or a day of one digit is written with one character
ShortFields(c) == c[2] < 10 \/ c[3] < 10

\* the text written without padding; with a month and a day of two digits it
\* is the zero-padded text
Unpadded(d) ==
    IF ShortFields(CivilFromDays(d)) THEN [date |-> d, form |-> "unpadded"]
    ELSE Padded(d)

\* the stored text of a record
snapshot_text(r) == [date |-> r.snapshot_date, form |-> r.date_form]

\* The order of the texts under the BINARY collation, by a key: a character
\* counts 0 for "-" or the end of the text and 1 + d for the digit d, as "-"
\* sorts before the digits; a field of month or day is its two characters, a
\* number without padding below 10 being followed by "-" or by the end
FieldKey(n, form) ==
    IF form = "padded" \/ n >= 10 THEN 11 * (1 + (n \div 10)) + (1 + (n % 10))
    ELSE 11 * (1 + n)

KeyOfCivil(c, form) == (c[1] * 121 + FieldKey(c[2], form)) * 121 + FieldKey(c[3], form)

TextKey(text) == KeyOfCivil(CivilFromDays(text.date), text.form)

\* text < text and text <= text as a statement compares snapshot_date with a
\* text; two zero-padded texts are ordered as their dates
TextLess(a, b) ==
    IF a.form = "padded" /\ b.form = "padded" THEN a.date < b.date
    ELSE TextKey(a) < TextKey(b)

TextLeq(a, b) == ~TextLess(b, a)

\* a row dated, by its text, from a date on, up to a date, after a date: the
\* date of the statement is bound as its "%Y-%m-%d" text
DatedFrom(r, d) == TextLeq(Padded(d), snapshot_text(r))

DatedUpTo(r, d) == TextLeq(snapshot_text(r), Padded(d))

DatedAfter(r, d) == TextLess(Padded(d), snapshot_text(r))

PORTFOLIO_ACCOUNT_ID == "__portfolio__"

\* parse_preset: a missing or empty preset is "ytd"; the texts of the model
\* are already trimmed and in lower case
parse_preset(raw) ==
    IF raw = "" THEN Ok("ytd")
    ELSE IF raw \in SUPPORTED_PRESETS THEN Ok(raw)
    ELSE Err(<<"unsupported preset", raw>>)

\* SnapshotRow { snapshot_date, total_assets_cents }
SnapshotRow(r) ==
    [snapshot_date |-> r.snapshot_date, total_assets_cents |-> r.total_assets_cents]

\* ORDER BY snapshot_date DESC LIMIT 1, .optional()
latest_row(rows) ==
    IF rows = {} THEN None
    ELSE Some(SnapshotRow(CHOOSE r \in rows :
                              \A o \in rows : TextLeq(snapshot_text(o), snapshot_text(r))))

\* ORDER BY snapshot_date ASC LIMIT 1, .optional()
earliest_row(rows) ==
    IF rows = {} THEN None
    ELSE Some(SnapshotRow(CHOOSE r \in rows :
                              \A o \in rows : TextLeq(snapshot_text(r), snapshot_text(o))))

\* first statement of select_begin_snapshot
begin_positive_before(records, account_id, window_from) ==
    latest_row({r \in records : /\ r.account_id = account_id
                                /\ DatedUpTo(r, window_from)
                                /\ r.total_assets_cents > 0})

\* second statement of select_begin_snapshot
begin_positive_within(records, account_id, window_from, window_to) ==
    earliest_row({r \in records : /\ r.account_id = account_id
                                  /\ DatedFrom(r, window_from)
                                  /\ DatedUpTo(r, window_to)
                                  /\ r.total_assets_cents > 0})

\* third statement of select_begin_snapshot
begin_any_before(records, account_id, window_from) ==
    latest_row({r \in records : /\ r.account_id = account_id
                                /\ DatedUpTo(r, window_from)})

\* select_begin_snapshot preferring the earliest positive snapshot of the
\* window to a positive snapshot before it
select_begin_snapshot_within_first(records, account_id, window_from, window_to) ==
    IF begin_positive_within(records, account_id, window_from, window_to) # None
    THEN begin_positive_within(records, account_id, window_from, window_to)
    ELSE IF begin_positive_before(records, account_id, window_from) # None
    THEN begin_positive_before(records, account_id, window_from)
    ELSE begin_any_before(records, account_id, window_from)

select_begin_snapshot(records, account_id, window_from, window_to) ==
    IF begin_positive_before(records, account_id, window_from) # None
    THEN begin_positive_before(records, account_id, window_from)
    ELSE IF begin_positive_within(records, account_id, window_from, window_to) # None
    THEN begin_positive_within(records, account_id, window_from, window_to)
    ELSE begin_any_before(records, account_id, window_from)

\* first statement of select_end_snapshot
end_positive_in_range(records, account_id, begin_date, window_to) ==
    latest_row({r \in records : /\ r.account_id = account_id
                                /\ DatedFrom(r, begin_date)
                                /\ DatedUpTo(r, window_to)
                                /\ r.total_assets_cents > 0})

\* second statement of select_end_snapshot
end_any_in_range(records, account_id, begin_date, window_to) ==
    latest_row({r \in records : /\ r.account_id = account_id
                                /\ DatedFrom(r, begin_date)
                                /\ DatedUpTo(r, window_to)})

\* select_end_snapshot taking the latest snapshot of the range whatever its value
select_end_snapshot_any_value(records, account_id, begin_date, window_to) ==
    end_any_in_range(records, account_id, begin_date, window_to)

select_end_snapshot(records, account_id, begin_date, window_to) ==
    IF end_positive_in_range(records, account_id, begin_date, window_to) # None
    THEN end_positive_in_range(records, account_id, begin_date, window_to)
    ELSE end_any_in_range(records, account_id, begin_date, window_to)

\* load_transfer_rows: the nonzero flows whose texts lie in (begin_date,
\* end_date], ORDER BY snapshot_date ASC
RECURSIVE transfer_rows_in_order(_)
transfer_rows_in_order(rows) ==
    IF rows = {} THEN <<>>
    ELSE LET first == CHOOSE r \in rows :
                          \A o \in rows : TextLeq(snapshot_text(r), snapshot_text(o))
         IN  <<[snapshot_date |-> first.snapshot_date,
                transfer_amount_cents |-> first.transfer_amount_cents]>>
             \o transfer_rows_in_order(rows \ {first})

load_transfer_rows(records, account_id, begin_date, end_date) ==
    transfer_rows_in_order({r \in records : /\ r.account_id = account_id
                                            /\ DatedAfter(r, begin_date)
                                            /\ DatedUpTo(r, end_date)
                                            /\ r.transfer_amount_cents # 0})

\* load_investment_account_bounds: MIN and MAX of the account's snapshot dates
load_investment_account_bounds(records, account_id) ==
    LET mine == {snapshot_text(r) : r \in {x \in records : x.account_id = account_id}}
    IN  IF mine = {} THEN Err(<<"no records found for this investment account">>)
        ELSE Ok([earliest |-> (CHOOSE t \in mine : \A o \in mine : TextLeq(t, o)).date,
                 latest |-> (CHOOSE t \in mine : \A o \in mine : TextLeq(o, t)).date])

\* load_portfolio_bounds: MIN and MAX of all snapshot dates
load_portfolio_bounds(records) ==
    LET all == {snapshot_text(r) : r \in records}
    IN  IF all = {} THEN Err(<<"no usable investment records">>)
        ELSE Ok([earliest |-> (CHOOSE t \in all : \A o \in all : TextLeq(t, o)).date,
                 latest |-> (CHOOSE t \in all : \A o \in all : TextLeq(o, t)).date,
                 account_count |-> Cardinality({r.account_id : r \in records})])

\* the first k decimal digits of r/d (0 <= r < d) and what remains
RECURSIVE LongDiv(_, _, _)
LongDiv(r, d, k) ==
    IF k = 0 THEN [quot |-> 0, rem |-> r]
    ELSE LET prev == LongDiv(r, d, k - 1)
         IN  [quot |-> prev.quot * 10 + (prev.rem * 10) \div d,
              rem |-> (prev.rem * 10) % d]

\* round_to(value, 8): (value * 10^8).round() / 10^8, halves away from zero
round_to_8(value) ==
    LET n == Abs(value.n)
        digits == LongDiv(n % value.d, value.d, 8)
        scaled == (n \div value.d) * 100000000 + digits.quot
                  + (IF 2 * digits.rem >= value.d THEN 1 ELSE 0)
    IN  Q(IF value.n < 0 THEN -scaled ELSE scaled, 100000000)

\* round_to(value, 8) of a power kept as a term
round_to_8_term(term) == [round_to_8 |-> term]

\* the json! payload of a return query (the yuan and percent texts, which
\* render the same numbers, and the account name are left out)
return_payload(account_id, preset, window, to_raw, begin_date, end_date, begin_assets, end_assets, calc) ==
    [account_id |-> account_id,
     range |-> [preset |-> preset,
                requested_from |-> FormatDate(window.requested_from),
                requested_to |-> IF to_raw = <<>> THEN FormatDate(window.latest)
                                 ELSE FormatDate(parse_iso_date(to_raw, "to").val),
                effective_from |-> FormatDate(begin_date),
                effective_to |-> FormatDate(end_date),
                interval_days |-> calc.interval_days],
     metrics |-> [begin_assets_cents |-> begin_assets,
                  end_assets_cents |-> end_assets,
                  net_flow_cents |-> calc.net_flow_cents,
                  profit_cents |-> calc.profit_cents,
                  net_growth_cents |-> calc.profit_cents,
                  weighted_capital_cents |-> calc.weighted_capital_cents,
                  return_rate |-> IF calc.return_rate = None THEN None
                                  ELSE Some(round_to_8(calc.return_rate.val)),
                  annualized_rate |-> IF calc.annualized_rate = None THEN None
                                      ELSE Some(round_to_8_term(calc.annualized_rate.val)),
                  note |-> calc.note],
     cash_flows |-> calc.cash_flows]

build_single_account_investment_return_payload(records, account_id, preset, from_raw, to_raw) ==
    LET bounds == load_investment_account_bounds(records, account_id)
    IN  IF ~bounds.ok THEN bounds
        ELSE
        LET window == resolve_window(preset, from_raw, to_raw,
                                     bounds.val.earliest, bounds.val.latest)
        IN  IF ~window.ok THEN window
            ELSE
            LET begin_row == select_begin_snapshot(records, account_id,
                                 window.val.effective_from, window.val.effective_to)
            IN  IF begin_row = None
                THEN Err(<<"no begin asset record in range">>)
                ELSE
                LET begin_date == begin_row.val.snapshot_date
                    end_row == select_end_snapshot(records, account_id, begin_date,
                                                   window.val.effective_to)
                IN  IF end_row = None
                    THEN Err(<<"no end asset record in range">>)
                    ELSE
                    LET end_date == end_row.val.snapshot_date
                    IN  IF begin_date >= end_date
                        THEN Err(<<"not enough valid snapshots in range to compute a return">>)
                        ELSE
                        LET calc == calculate_modified_dietz(
                                        begin_date, end_date,
                                        begin_row.val.total_assets_cents,
                                        end_row.val.total_assets_cents,
                                        load_transfer_rows(records, account_id,
                                                           begin_date, end_date),
                                        FALSE)
                        IN  IF ~calc.ok THEN calc
                            ELSE Ok(return_payload(account_id, preset, window.val, to_raw,
                                        begin_date, end_date,
                                        begin_row.val.total_assets_cents,
                                        end_row.val.total_assets_cents, calc.val))

\* SELECT DISTINCT snapshot_date in [effective_from, effective_to], then both
\* ends pushed, sort_unstable and dedup
portfolio_dates(records, effective_from, effective_to) ==
    SortedSeqOf({r.snapshot_date : r \in {x \in records :
                                              /\ DatedFrom(x, effective_from)
                                              /\ DatedUpTo(x, effective_to)}}
                \cup {effective_from, effective_to})

\* rows ORDER BY account_id, snapshot_date, read as PortfolioHistoryRow
RECURSIVE history_rows_in_order(_)
history_rows_in_order(rows) ==
    IF rows = {} THEN <<>>
    ELSE LET first ==
                 CHOOSE r \in rows : \A o \in rows :
                     \/ /\ r.account_id = o.account_id
                        /\ TextLeq(snapshot_text(r), snapshot_text(o))
                     \/ AccountRank(r.account_id) < AccountRank(o.account_id)
         IN  <<[account_id |-> first.account_id, snapshot_date |-> first.snapshot_date,
                value_cents |-> first.total_assets_cents,
                flow_cents |-> first.transfer_amount_cents]>>
             \o history_rows_in_order(rows \ {first})

\* the history statement: the rows whose texts are <= effective_to, ORDER BY
\* account_id, snapshot_date
portfolio_history_rows(records, effective_to) ==
    history_rows_in_order({r \in records : DatedUpTo(r, effective_to)})

\* SUM(transfer_amount_cents) over a set of rows
RECURSIVE sum_of_transfers(_)
sum_of_transfers(rows) ==
    IF rows = {} THEN 0
    ELSE LET r == CHOOSE x \in rows : TRUE
         IN  r.transfer_amount_cents + sum_of_transfers(rows \ {r})

\* texts in ascending order
RECURSIVE texts_in_order(_)
texts_in_order(texts) ==
    IF texts = {} THEN <<>>
    ELSE LET first == CHOOSE t \in texts : \A o \in texts : TextLeq(t, o)
         IN  <<first>> \o texts_in_order(texts \ {first})

\* the rows of the flow statement: the nonzero flows whose texts lie in
\* (effective_from, effective_to]
flow_rows_between(records, effective_from, effective_to) ==
    {r \in records : /\ DatedAfter(r, effective_from)
                     /\ DatedUpTo(r, effective_to)
                     /\ r.transfer_amount_cents # 0}

\* the rows of one group of GROUP BY snapshot_date
rows_on(rows, t) == {r \in rows : snapshot_text(r) = t}

\* the groups that pass HAVING: those with a nonzero sum
flow_groups(rows) ==
    {t \in {snapshot_text(r) : r \in rows} : sum_of_transfers(rows_on(rows, t)) # 0}

\* one TransferRow per group, in the order given, its text parsed
flow_rows_of(rows, in_order) ==
    [i \in DOMAIN in_order |->
        [snapshot_date |-> in_order[i].date,
         transfer_amount_cents |-> sum_of_transfers(rows_on(rows, in_order[i]))]]

\* the flow statement: GROUP BY snapshot_date HAVING a nonzero sum, ORDER BY
\* snapshot_date
portfolio_flow_rows(records, effective_from, effective_to) ==
    flow_rows_of(flow_rows_between(records, effective_from, effective_to),
                 texts_in_order(flow_groups(
                     flow_rows_between(records, effective_from, effective_to))))

build_portfolio_investment_return_payload(records, preset, from_raw, to_raw) ==
    LET bounds == load_portfolio_bounds(records)
    IN  IF ~bounds.ok THEN bounds
        ELSE
        LET window == resolve_window(preset, from_raw, to_raw,
                                     bounds.val.earliest, bounds.val.latest)
        IN  IF ~window.ok THEN window
            ELSE IF window.val.effective_from >= window.val.effective_to
            THEN Err(<<"not enough valid snapshots in range to compute a return">>)
            ELSE
            LET from == window.val.effective_from
                to == window.val.effective_to
                history_rows == portfolio_history_rows(records, to)
            IN  IF history_rows = <<>>
                THEN Err(<<"no usable investment records in range">>)
                ELSE
                LET totals == build_portfolio_asof_totals(
                                  portfolio_dates(records, from, to), history_rows)
                    calc == calculate_modified_dietz(
                                from, to, totals[FormatDate(from)], totals[FormatDate(to)],
                                portfolio_flow_rows(records, from, to), FALSE)
                IN  IF ~calc.ok THEN calc
                    ELSE Ok([account_count |-> bounds.val.account_count] @@
                            return_payload(PORTFOLIO_ACCOUNT_ID, preset, window.val,
                                to_raw, from, to, totals[FormatDate(from)],
                                totals[FormatDate(to)], calc.val))

\* investment_return_query_at_db_path
investment_return_query(records, account_id, preset_raw, from_raw, to_raw) ==
    IF account_id = "" THEN Err(<<"account_id is required">>)
    ELSE IF ~parse_preset(preset_raw).ok THEN parse_preset(preset_raw)
    ELSE IF account_id = PORTFOLIO_ACCOUNT_ID
    THEN build_portfolio_investment_return_payload(
             records, parse_preset(preset_raw).val, from_raw, to_raw)
    ELSE build_single_account_investment_return_payload(
             records, account_id, parse_preset(preset_raw).val, from_raw, to_raw)

(***************************************************************************)
(* The curve queries.  A row of a curve is [snapshot_date,                 *)
(* effective_snapshot_date, total_assets_cents, transfer_amount_cents,     *)
(* cumulative_net_growth_cents, cumulative_return_rate]; the yuan and      *)
(* percent texts, which render the same numbers, are left out.             *)
(***************************************************************************)
\* parse_preset_with_default: a missing or empty preset is the default
parse_preset_with_default(raw, default_preset) ==
    LET preset == IF raw = "" THEN default_preset ELSE raw
    IN  IF preset \in SUPPORTED_PRESETS THEN Ok(preset)
        ELSE Err(<<"unsupported preset", preset>>)

\* the date statement of the single-account curve: the dates of the texts in
\* [begin_date, final_end_date], then both ends pushed, sort_unstable, dedup
curve_candidate_dates(records, account_id, begin_date, final_end_date) ==
    SortedSeqOf({r.snapshot_date : r \in {x \in records :
                                              /\ x.account_id = account_id
                                              /\ DatedFrom(x, begin_date)
                                              /\ DatedUpTo(x, final_end_date)}}
                \cup {begin_date, final_end_date})

\* SUM(transfer_amount_cents) ... GROUP BY snapshot_date HAVING a nonzero sum,
\* collected into transfer_by_date: a map from the stored text to the sum
transfer_sums_by_text(rows) ==
    [t \in flow_groups(rows) |-> sum_of_transfers(rows_on(rows, t))]

\* the transfer statement of the single-account curve
curve_transfer_by_date(records, account_id, begin_date, final_end_date) ==
    transfer_sums_by_text({r \in records : /\ r.account_id = account_id
                                           /\ DatedFrom(r, begin_date)
                                           /\ DatedUpTo(r, final_end_date)
                                           /\ r.transfer_amount_cents # 0})

\* *transfer_by_date.get(&point_date_text).unwrap_or(&0)
transfer_on(transfer_by_date, point_date) ==
    IF Padded(point_date) \in DOMAIN transfer_by_date
    THEN transfer_by_date[Padded(point_date)]
    ELSE 0

\* the row pushed for one point
curve_row(point_date, effective_date, assets_cents, transfer_amount_cents, calc) ==
    [snapshot_date |-> FormatDate(point_date),
     effective_snapshot_date |-> FormatDate(effective_date),
     total_assets_cents |-> assets_cents,
     transfer_amount_cents |-> transfer_amount_cents,
     cumulative_net_growth_cents |-> calc.profit_cents,
     cumulative_return_rate |-> IF calc.return_rate = None THEN None
                                ELSE Some(round_to_8(calc.return_rate.val))]

\* the body of the loop of the single-account curve for one candidate date:
\* None when the date is skipped, else the failure of the calculation or the row
single_curve_point(records, account_id, begin_row, point_date, transfer_by_date) ==
    LET point_end_row == select_end_snapshot(records, account_id,
                                             begin_row.snapshot_date, point_date)
    IN  IF point_end_row = None THEN None
        ELSE
        LET point_calc == calculate_modified_dietz(
                              begin_row.snapshot_date, point_end_row.val.snapshot_date,
                              begin_row.total_assets_cents,
                              point_end_row.val.total_assets_cents,
                              load_transfer_rows(records, account_id,
                                                 begin_row.snapshot_date,
                                                 point_end_row.val.snapshot_date),
                              TRUE)
        IN  IF ~point_calc.ok THEN Some(point_calc)
            ELSE Some(Ok(curve_row(point_date, point_end_row.val.snapshot_date,
                                   point_end_row.val.total_assets_cents,
                                   transfer_on(transfer_by_date, point_date),
                                   point_calc.val)))

\* the flow statement of the portfolio curve, kept as (text, amount) pairs in
\* the order of the texts
flow_points_of(rows, in_order) ==
    [i \in DOMAIN in_order |->
        [flow_date |-> in_order[i],
         flow_amount |-> sum_of_transfers(rows_on(rows, in_order[i]))]]

portfolio_flow_points(records, effective_from, effective_to) ==
    flow_points_of(flow_rows_between(records, effective_from, effective_to),
                   texts_in_order(flow_groups(
                       flow_rows_between(records, effective_from, effective_to))))

\* point_flows: the flow points up to the first one whose text is after the
\* text of the point date, parsed
RECURSIVE portfolio_point_flows(_, _)
portfolio_point_flows(flow_points, point_date) ==
    IF flow_points = <<>> THEN <<>>
    ELSE IF TextLess(Padded(point_date), Head(flow_points).flow_date) THEN <<>>
    ELSE <<[snapshot_date |-> Head(flow_points).flow_date.date,
            transfer_amount_cents |-> Head(flow_points).flow_amount]>>
         \o portfolio_point_flows(Tail(flow_points), point_date)

\* transfer_by_date of the portfolio curve
portfolio_transfer_by_date(flow_points) ==
    [t \in {flow_points[i].flow_date : i \in DOMAIN flow_points} |->
        (CHOOSE p \in {flow_points[i] : i \in DOMAIN flow_points} : p.flow_date = t).flow_amount]

\* the body of the loop of the portfolio curve for one date
portfolio_curve_point(effective_from, point_date, totals, begin_assets, flow_points) ==
    IF TextLess(Padded(point_date), Padded(effective_from)) THEN None
    ELSE
    LET point_calc == calculate_modified_dietz(
                          effective_from, point_date, begin_assets,
                          totals[FormatDate(point_date)],
                          portfolio_point_flows(flow_points, point_date), TRUE)
    IN  IF ~point_calc.ok THEN Some(point_calc)
        ELSE Some(Ok(curve_row(point_date, point_date, totals[FormatDate(point_date)],
                               transfer_on(portfolio_transfer_by_date(flow_points),
                                           point_date),
                               point_calc.val)))

\* the summary of a curve without rows
empty_curve_summary ==
    [count |-> 0, change_cents |-> 0, change_pct |-> None,
     end_net_growth_cents |-> 0, end_cumulative_return_rate |-> None]

\* change_pct: the change over the first value, when that is positive
change_pct_of(first_value, change_cents) ==
    IF first_value > 0 THEN Some(round_to_8(Q(change_cents, first_value))) ELSE None

\* curve_summary reading the end of the curve from its first row
curve_summary_of_first_row(rows) ==
    [count |-> Len(rows),
     start_assets_cents |-> rows[1].total_assets_cents,
     end_assets_cents |-> rows[1].total_assets_cents,
     change_cents |-> 0,
     change_pct |-> change_pct_of(rows[1].total_assets_cents, 0),
     end_net_growth_cents |-> rows[1].cumulative_net_growth_cents,
     end_cumulative_return_rate |->
         IF rows[1].cumulative_return_rate = None THEN None
         ELSE Some(round_to_8(rows[1].cumulative_return_rate.val))]

\* the summary of a curve with rows, read from its first and last row
curve_summary(rows) ==
    [count |-> Len(rows),
     start_assets_cents |-> rows[1].total_assets_cents,
     end_assets_cents |-> rows[Len(rows)].total_assets_cents,
     change_cents |-> rows[Len(rows)].total_assets_cents - rows[1].total_assets_cents,
     change_pct |-> change_pct_of(rows[1].total_assets_cents,
                        rows[Len(rows)].total_assets_cents - rows[1].total_assets_cents),
     end_net_growth_cents |-> rows[Len(rows)].cumulative_net_growth_cents,
     end_cumulative_return_rate |->
         IF rows[Len(rows)].cumulative_return_rate = None THEN None
         ELSE Some(round_to_8(rows[Len(rows)].cumulative_return_rate.val))]

\* the json! payload of a curve query; empty_to is effective_to of a curve
\* without rows
curve_payload(account_id, preset, window, to_raw, effective_from, empty_to, rows) ==
    [account_id |-> account_id,
     range |-> [preset |-> preset,
                requested_from |-> FormatDate(window.requested_from),
                requested_to |-> IF to_raw = <<>> THEN FormatDate(window.latest)
                                 ELSE FormatDate(parse_iso_date(to_raw, "to").val),
                effective_from |-> FormatDate(effective_from),
                effective_to |-> IF rows = <<>> THEN FormatDate(empty_to)
                                 ELSE rows[Len(rows)].effective_snapshot_date],
     summary |-> IF rows = <<>> THEN empty_curve_summary ELSE curve_summary(rows),
     rows |-> rows]

LedgerDateTexts ==
    << <<2026, 1, 31>>, <<2026, 2, 28>>, <<2026, 3, 31>>, <<2025, 12, 31>>,
       <<2026, 4, 30>> >>

\* the snapshot dates of the ledger, and the from/to dates of the queries
LedgerDates ==
    {DaysFromCivil(t[1], t[2], t[3]) : t \in Take(LedgerDateTexts, MaxLedgerDates)}

\* the from/to texts of a query: omitted, or one of the dates
LedgerRawTexts == {<<>>} \cup Take(LedgerDateTexts, MaxLedgerDates)

\* total_assets_cents and transfer_amount_cents of a stored record
LedgerValues == {0, 7}
LedgerFlows == {0, 3}

\* the id of a record: uuid v5 of "account_id:snapshot_date:source_type"
record_id(account_id, text, source_type) ==
    <<account_id, text, source_type>>

\* a record as the INSERT of an upsert creates it; snapshot_date is the date
\* of the stored text and date_form its form
new_record(account_id, text, total_assets_cents, transfer_amount_cents, source_type) ==
    [id |-> record_id(account_id, text, source_type),
     account_id |-> account_id,
     snapshot_date |-> text.date,
     date_form |-> text.form,
     total_assets_cents |-> total_assets_cents,
     transfer_amount_cents |-> transfer_amount_cents,
     source_type |-> source_type]

\* the records an import can have left for one account: at most one per date,
\* the date texts zero-padded, none with neither assets nor flow
ImportedRecordsOf(account_id) ==
    UNION {{{new_record(account_id, Padded(d), c[d][1], c[d][2], "yzxy_csv") : d \in S} :
               c \in [S -> (LedgerValues \X LedgerFlows) \ {<<0, 0>>}]} :
           S \in SUBSET LedgerDates}

\* ledgers of one account with any history, beside a second account with at
\* most one record, dated on the first sample date
LedgerStates ==
    {ra \cup rb :
        ra \in ImportedRecordsOf("acct_a"),
        rb \in {{}, {new_record("acct_b",
                                Padded(DaysFromCivil(LedgerDateTexts[1][1],
                                                     LedgerDateTexts[1][2],
                                                     LedgerDateTexts[1][3])),
                                7, 3, "yzxy_csv")}}}

\* ledgers after a manual upsert whose date text is not zero-padded: a small
\* imported ledger, the record the upsert has inserted for the first account
\* (a manual record has positive assets), and possibly an imported record of
\* a later month with two digits
ManualAmounts == {<<7, 0>>, <<9, 3>>}

LateDateText == <<2026, 10, 31>>

LateRecords ==
    {{}, {new_record("acct_a",
                     Padded(DaysFromCivil(LateDateText[1], LateDateText[2], LateDateText[3])),
                     7, 0, "yzxy_csv")}}

ManualLedgerStates ==
    {rs \cup {new_record("acct_a", Unpadded(d), m[1], m[2], "manual")} \cup late :
        rs \in {x \in LedgerStates : Cardinality(x) <= 2},
        d \in {x \in LedgerDates : Unpadded(x) # Padded(x)}, m \in ManualAmounts,
        late \in LateRecords}

\* the requests of a curve query: a custom window, since_inception up to a
\* date, or the default preset
CurveQueryRequests ==
    {[op |-> "investment_curve_query", account_id |-> a, preset |-> "custom",
      from |-> f, to |-> t] :
        a \in {"acct_a", PORTFOLIO_ACCOUNT_ID}, f \in LedgerRawTexts, t \in LedgerRawTexts}
    \cup
    {[op |-> "investment_curve_query", account_id |-> a, preset |-> p,
      from |-> <<>>, to |-> t] :
        a \in {"acct_a", PORTFOLIO_ACCOUNT_ID}, p \in {"since_inception", ""},
        t \in LedgerRawTexts}

\* the requests of a return query: a custom window, since_inception up to a
\* date, or the default preset
ReturnQueryRequests ==
    {[op |-> "investment_return_query", account_id |-> a, preset |-> "custom",
      from |-> f, to |-> t] :
        a \in {"acct_a", PORTFOLIO_ACCOUNT_ID}, f \in LedgerRawTexts, t \in LedgerRawTexts}
    \cup
    {[op |-> "investment_return_query", account_id |-> a, preset |-> p,
      from |-> <<>>, to |-> t] :
        a \in {"acct_a", PORTFOLIO_ACCOUNT_ID}, p \in {"since_inception", ""},
        t \in LedgerRawTexts}

(***************************************************************************)
(* record_mutations.rs and yzxy_import.rs: the writers of                  *)
(* investment_records.  The table holds at most one row per id and, as the *)
(* conflict target of the upserts says, one per (account_id,               *)
(* snapshot_date), where snapshot_date is the stored text.  A date text of *)
(* a request is [ymd, form]: the numbers written and whether month and day *)
(* are zero-padded; amounts are taken as parsed cents.  A writer yields    *)
(* its outcome [result, records, accounts].                                *)
(***************************************************************************)
\* uuid_v5_suffix12 of "keepwise:investment:<name>": one id per name
investment_account_id_from_name(account_name) == "acct_" \o account_name

\* the name used when a request names no account
DefaultAccountName == "manual"

\* normalize_date of record_mutations.rs: the text must parse as a date with
\* "%Y-%m-%d", and the trimmed text itself is what is returned
normalize_date(raw) ==
    IF raw.ymd = <<>> THEN Err(<<"snapshot_date is required">>)
    ELSE IF ~parse_iso_date(raw.ymd, "snapshot_date").ok
         THEN Err(<<"snapshot_date must be YYYY-MM-DD">>)
         ELSE Ok(IF raw.form = "padded"
                 THEN Padded(parse_iso_date(raw.ymd, "snapshot_date").val)
                 ELSE Unpadded(parse_iso_date(raw.ymd, "snapshot_date").val))

\* normalize_date of yzxy_import.rs: the date is written back as
\* "{year:04}-{month:02}-{day:02}"
yzxy_normalize_date(raw) ==
    IF raw.ymd = <<>> THEN Err(<<"missing date field">>)
    ELSE IF ~parse_iso_date(raw.ymd, "snapshot_date").ok
         THEN Err(<<"unsupported date format">>)
         ELSE Ok(Padded(parse_iso_date(raw.ymd, "snapshot_date").val))

\* the account a manual request writes to: the existing account of the id
\* given, else the account of the name given
resolve_account(account_ids, account_id_input, account_name_input) ==
    IF account_id_input # ""
    THEN IF account_id_input \in account_ids
         THEN Ok(account_id_input)
         ELSE Err(<<"account not found">>)
    ELSE Ok(investment_account_id_from_name(
                IF account_name_input = "" THEN DefaultAccountName
                ELSE account_name_input))

\* one outcome of a writer
Outcome(result, records, account_ids) ==
    [result |-> result, records |-> records, accounts |-> account_ids]

\* upsert_row without its ON CONFLICT clause: a row of the same account and
\* text makes the INSERT fail
upsert_row_insert_only(records, account_ids, account_id, text, total_assets_cents, transfer_amount_cents, source_type) ==
    IF \E r \in records : r.id = record_id(account_id, text, source_type)
                          \/ (r.account_id = account_id /\ snapshot_text(r) = text)
    THEN Outcome(Err(<<"UNIQUE constraint failed">>), records, account_ids)
    ELSE Outcome(Ok([account_id |-> account_id, snapshot_date |-> text]),
                 records \cup {new_record(account_id, text, total_assets_cents,
                                          transfer_amount_cents, source_type)},
                 account_ids \cup {account_id})

\* INSERT ... ON CONFLICT(account_id, snapshot_date) DO UPDATE of one row,
\* after ensure_account, in one transaction: the row of the same account and
\* text takes the values and the source type and keeps its id; without such
\* a row the new one is inserted, unless its id is taken.
upsert_row(records, account_ids, account_id, text, total_assets_cents, transfer_amount_cents, source_type) ==
    LET rec_id   == record_id(account_id, text, source_type)
        key_rows == {r \in records : r.account_id = account_id /\ snapshot_text(r) = text}
        id_rows  == {r \in records : r.id = rec_id} \ key_rows
        updated  == {IF r \in key_rows
                     THEN [r EXCEPT !.total_assets_cents = total_assets_cents,
                                    !.transfer_amount_cents = transfer_amount_cents,
                                    !.source_type = source_type]
                     ELSE r : r \in records}
        inserted == records \cup {new_record(account_id, text, total_assets_cents,
                                             transfer_amount_cents, source_type)}
        done(rs) == Outcome(Ok([account_id |-> account_id, snapshot_date |-> text]),
                            rs, account_ids \cup {account_id})
        failed   == Outcome(Err(<<"UNIQUE constraint failed">>), records, account_ids)
    IN  IF key_rows # {} THEN done(updated)
        ELSE IF id_rows # {} THEN failed
        ELSE done(inserted)

\* upsert_manual_investment_at_db_path
upsert_manual_investment(records, account_ids, req) ==
    LET date    == normalize_date(req.snapshot_date)
        account == resolve_account(account_ids, req.account_id, req.account_name)
    IN  IF ~date.ok THEN Outcome(date, records, account_ids)
        ELSE IF req.total_assets_cents <= 0
             THEN Outcome(Err(<<"total assets must be greater than 0">>),
                           records, account_ids)
        ELSE IF ~account.ok THEN Outcome(account, records, account_ids)
        ELSE upsert_row(records, account_ids, account.val, date.val,
                        req.total_assets_cents, req.transfer_amount_cents, "manual")

\* update_investment_record_at_db_path: UPDATE ... WHERE id, refused when
\* another row holds the new (account_id, snapshot_date)
update_investment_record(records, account_ids, req) ==
    LET date    == normalize_date(req.snapshot_date)
        account == resolve_account(account_ids, req.account_id, req.account_name)
        taken   == \E r \in records : /\ r.id # req.id
                                       /\ r.account_id = account.val
                                       /\ snapshot_text(r) = date.val
        updated == {IF r.id = req.id
                    THEN [r EXCEPT !.account_id = account.val,
                                   !.snapshot_date = date.val.date,
                                   !.date_form = date.val.form,
                                   !.total_assets_cents = req.total_assets_cents,
                                   !.transfer_amount_cents = req.transfer_amount_cents]
                    ELSE r : r \in records}
    IN  IF req.id = <<>> THEN Outcome(Err(<<"id is required">>), records, account_ids)
        ELSE IF ~date.ok THEN Outcome(date, records, account_ids)
        ELSE IF req.total_assets_cents <= 0
             THEN Outcome(Err(<<"total assets must be greater than 0">>),
                           records, account_ids)
        ELSE IF \A r \in records : r.id # req.id
             THEN Outcome(Err(<<"investment record to update not found">>),
                           records, account_ids)
        ELSE IF ~account.ok THEN Outcome(account, records, account_ids)
        ELSE IF taken
             THEN Outcome(Err(<<"UNIQUE constraint failed">>), records, account_ids)
        ELSE Outcome(Ok([id |-> req.id, account_id |-> account.val,
                          snapshot_date |-> date.val,
                          total_assets_cents |-> req.total_assets_cents,
                          transfer_amount_cents |-> req.transfer_amount_cents]),
                      updated, account_ids \cup {account.val})

\* delete_investment_record_at_db_path
delete_investment_record(records, account_ids, req) ==
    IF req.id = <<>> THEN Outcome(Err(<<"id is required">>), records, account_ids)
    ELSE IF \A r \in records : r.id # req.id
         THEN Outcome(Err(<<"investment record to delete not found">>),
                       records, account_ids)
    ELSE Outcome(Ok([id |-> req.id, deleted |-> TRUE]),
                  {r \in records : r.id # req.id}, account_ids)

\* the account name a file row without one gets: extract_account_name_hint
\* falls back to a fixed name
AccountNameHint == "yzxy"

\* a Bucket before any row of its date was read
EmptyBucket ==
    [account_name |-> "", total_assets_cents |-> 0, transfer_amount_cents |-> 0,
     has_total_assets |-> FALSE]

\* parse_manual_rows, the loop over the first k rows of the file: the rows
\* are gathered per normalized date; a row whose date does not parse is
\* counted as an error
RECURSIVE collect_buckets(_, _)
collect_buckets(file_rows, k) ==
    IF k = 0 THEN [buckets |-> <<>>, errors |-> 0]
    ELSE LET before == collect_buckets(file_rows, k - 1)
             row    == file_rows[k]
             date   == yzxy_normalize_date(row.snapshot_date)
             name   == IF row.account_name = "" THEN AccountNameHint
                       ELSE row.account_name
             old    == IF date.val.date \in DOMAIN before.buckets
                       THEN before.buckets[date.val.date] ELSE EmptyBucket
             bucket == [account_name |-> name,
                        total_assets_cents |->
                            IF row.has_total_assets THEN row.total_assets_cents
                            ELSE old.total_assets_cents,
                        transfer_amount_cents |->
                            old.transfer_amount_cents + row.transfer_amount_cents,
                        has_total_assets |->
                            old.has_total_assets \/ row.has_total_assets]
         IN  IF ~date.ok
             THEN [before EXCEPT !.errors = before.errors + 1]
             ELSE [buckets |-> [d \in DOMAIN before.buckets \cup {date.val.date} |->
                                   IF d = date.val.date THEN bucket
                                   ELSE before.buckets[d]],
                   errors |-> before.errors]

\* finalize_rows_with_inferred_assets over the first k dates of the buckets,
\* in ascending order: a date without a total inherits the last known total
\* plus its flow, or is an error when it has a flow and nothing to inherit;
\* a row of total 0 and flow 0 is dropped
RECURSIVE finalize_rows_with_inferred_assets(_, _, _)
finalize_rows_with_inferred_assets(buckets, dates, k) ==
    IF k = 0 THEN [rows |-> <<>>, errors |-> 0, last_known_assets_cents |-> None]
    ELSE LET before == finalize_rows_with_inferred_assets(buckets, dates, k - 1)
             item   == buckets[dates[k]]
             last   == before.last_known_assets_cents
             total  == IF item.has_total_assets THEN item.total_assets_cents
                       ELSE IF last # None
                            THEN last.val + item.transfer_amount_cents
                            ELSE item.total_assets_cents
             known  == IF item.has_total_assets \/ last # None THEN Some(total)
                       ELSE None
             row    == [snapshot_date |-> Padded(dates[k]),
                        account_name |-> item.account_name,
                        total_assets_cents |-> total,
                        transfer_amount_cents |-> item.transfer_amount_cents]
         IN  IF ~item.has_total_assets /\ last = None /\ item.transfer_amount_cents # 0
             THEN [before EXCEPT !.errors = before.errors + 1]
             ELSE IF total = 0 /\ item.transfer_amount_cents = 0
                  THEN [before EXCEPT !.last_known_assets_cents = known]
                  ELSE [rows |-> Append(before.rows, row),
                        errors |-> before.errors,
                        last_known_assets_cents |-> known]

\* parse_input_file: the rows to write and the number of rows rejected
parse_input_file(file_rows) ==
    LET collected == collect_buckets(file_rows, Len(file_rows))
        dates     == SortedSeqOf(DOMAIN collected.buckets)
        finalized == finalize_rows_with_inferred_assets(collected.buckets, dates,
                                                        Len(dates))
    IN  [rows |-> finalized.rows, errors |-> collected.errors + finalized.errors]

\* yzxy_import_file_at_db_path, the loop over the first k parsed rows: each
\* row is written in a transaction of its own and counted as imported or as
\* an error
RECURSIVE import_rows(_, _, _, _, _, _)
import_rows(records, account_ids, rows, k, source_type, parse_errors) ==
    IF k = 0
    THEN [records |-> records, accounts |-> account_ids, imported_count |-> 0,
          error_count |-> parse_errors]
    ELSE LET before == import_rows(records, account_ids, rows, k - 1, source_type,
                                   parse_errors)
             step   == upsert_row(before.records, before.accounts,
                                  investment_account_id_from_name(rows[k].account_name),
                                  rows[k].snapshot_date, rows[k].total_assets_cents,
                                  rows[k].transfer_amount_cents, source_type)
         IN  [records |-> step.records,
              accounts |-> step.accounts,
              imported_count |-> before.imported_count + (IF step.result.ok THEN 1 ELSE 0),
              error_count |-> before.error_count + (IF step.result.ok THEN 0 ELSE 1)]

\* yzxy_import_file_at_db_path; job is the row the run leaves in import_jobs
\* and job_number stands for its random id
yzxy_import_file(records, account_ids, file_rows, source_type, job_number) ==
    LET parsed == parse_input_file(file_rows)
        done   == import_rows(records, account_ids, parsed.rows, Len(parsed.rows),
                              source_type, parsed.errors)
    IN  [result |-> Ok([imported_count |-> done.imported_count,
                        error_count |-> done.error_count,
                        import_job_id |-> job_number]),
         records |-> done.records,
         accounts |-> done.accounts,
         job |-> [id |-> job_number, status |-> "success",
                  total_count |-> Len(parsed.rows) + parsed.errors,
                  imported_count |-> done.imported_count,
                  error_count |-> done.error_count]]

\* the date texts of the write requests: the first MaxLedgerDates - 1 sample
\* dates, zero-padded or not, no text, and a text that is no calendar date
LedgerWriteTexts ==
    {[ymd |-> LedgerDateTexts[i], form |-> f] :
        i \in 1..(MaxLedgerDates - 1), f \in {"padded", "unpadded"}}
    \cup {[ymd |-> <<>>, form |-> "padded"], [ymd |-> <<2026, 2, 30>>, form |-> "padded"]}

\* how a write request names its account: by name, by the id of that name,
\* or by an id no account has
LedgerWriteAccounts ==
    {[account_id |-> "", account_name |-> "a"],
     [account_id |-> "acct_a", account_name |-> ""],
     [account_id |-> "acct_none", account_name |-> ""]}

\* total assets and flow of a write request, in cents
LedgerWriteAmounts == {<<0, 0>>, <<7, 0>>, <<9, 3>>}

UpsertRequests ==
    {[op |-> "upsert_manual_investment", snapshot_date |-> t,
      account_id |-> a.account_id, account_name |-> a.account_name,
      total_assets_cents |-> m[1], transfer_amount_cents |-> m[2]] :
        t \in LedgerWriteTexts, a \in LedgerWriteAccounts, m \in LedgerWriteAmounts}

\* the ids an update or a delete can name: none, one no record has, or the
\* id of a record
RecordIdsOf(records) == {<<>>, <<"no such record">>} \cup {r.id : r \in records}

UpdateRequests(records) ==
    {[op |-> "update_investment_record", id |-> id, snapshot_date |-> t,
      account_id |-> a.account_id, account_name |-> a.account_name,
      total_assets_cents |-> m[1], transfer_amount_cents |-> m[2]] :
        id \in RecordIdsOf(records), t \in LedgerWriteTexts,
        a \in LedgerWriteAccounts, m \in LedgerWriteAmounts}

DeleteRequests(records) ==
    {[op |-> "delete_investment_record", id |-> id] : id \in RecordIdsOf(records)}

\* the rows of an import file: a date text, an account name or none, and the
\* cells of total assets and flow, the total possibly empty
FileRows ==
    {[snapshot_date |-> t, account_name |-> n, has_total_assets |-> h[1],
      total_assets_cents |-> h[2], transfer_amount_cents |-> f] :
        t \in {[ymd |-> LedgerDateTexts[1], form |-> "padded"],
                [ymd |-> LedgerDateTexts[1], form |-> "unpadded"],
                [ymd |-> LedgerDateTexts[2], form |-> "padded"],
                [ymd |-> <<2026, 2, 30>>, form |-> "padded"]},
        n \in {"a", ""}, h \in {<<TRUE, 7>>, <<TRUE, 0>>, <<FALSE, 0>>},
        f \in {0, 3}}

\* the import files of up to n rows
ImportFiles(n) == UNION {[1..k -> FileRows] : k \in 0..n}

(***************************************************************************)
(* wealth_analytics.rs: the wealth overview.  A row of account_valuations  *)
(* is [account_id, account_name, asset_class, snapshot_date, value_cents]; *)
(* the table holds one row per (account_id, asset_class, snapshot_date).   *)
(* The *_yuan texts of the payload repeat the *_cents fields and are left  *)
(* out.                                                                    *)
(***************************************************************************)
\* parse_bool_param
parse_bool_param(raw, default) ==
    IF raw = "" THEN Ok(default)
    ELSE IF raw \in {"1", "true", "yes", "y", "on"} THEN Ok(TRUE)
    ELSE IF raw \in {"0", "false", "no", "n", "off"} THEN Ok(FALSE)
    ELSE Err(<<"invalid boolean parameter", raw>>)

\* parse_wealth_filters
parse_wealth_filters(include_investment, include_cash, include_real_estate, include_liability) ==
    LET investment  == parse_bool_param(include_investment, TRUE)
        cash        == parse_bool_param(include_cash, TRUE)
        real_estate == parse_bool_param(include_real_estate, TRUE)
        liability   == parse_bool_param(include_liability, TRUE)
    IN  IF ~investment.ok THEN investment
        ELSE IF ~cash.ok THEN cash
        ELSE IF ~real_estate.ok THEN real_estate
        ELSE IF ~liability.ok THEN liability
        ELSE IF ~(investment.val \/ cash.val \/ real_estate.val \/ liability.val)
             THEN Err(<<"at least one asset class must be selected">>)
        ELSE Ok([include_investment |-> investment.val,
                 include_cash |-> cash.val,
                 include_real_estate |-> real_estate.val,
                 include_liability |-> liability.val])

\* query_latest_union_date: MAX(snapshot_date) over both tables
query_latest_union_date(records, valuations) ==
    LET texts == {snapshot_text(r) : r \in records}
                 \cup {Padded(v.snapshot_date) : v \in valuations}
    IN  IF texts = {} THEN None
        ELSE Some((CHOOSE t \in texts : \A o \in texts : TextLeq(o, t)).date)

\* the order of the account names as texts
NameRank(name) ==
    CASE name = "acct_a" -> 1
      [] name = "acct_b" -> 2
      [] name = "cash_a" -> 3
      [] name = "house" -> 4
      [] name = "loan" -> 5
      [] OTHER -> 6

\* the order of the asset classes as texts
ClassRank(asset_class) ==
    CASE asset_class = "cash" -> 1
      [] asset_class = "investment" -> 2
      [] asset_class = "liability" -> 3
      [] asset_class = "real_estate" -> 4
      [] OTHER -> 5

\* ORDER BY value_cents DESC, account_name
RECURSIVE by_value_and_name(_)
by_value_and_name(rows) ==
    IF rows = {} THEN <<>>
    ELSE LET first == CHOOSE r \in rows : \A o \in rows :
                          \/ r.value_cents > o.value_cents
                          \/ /\ r.value_cents = o.value_cents
                             /\ NameRank(r.account_name) <= NameRank(o.account_name)
         IN  <<first>> \o by_value_and_name(rows \ {first})

\* ORDER BY asset_class, value_cents DESC, account_name
by_class_value_and_name(rows) ==
    by_value_and_name({r \in rows : ClassRank(r.asset_class) = 1})
        \o by_value_and_name({r \in rows : ClassRank(r.asset_class) = 2})
        \o by_value_and_name({r \in rows : ClassRank(r.asset_class) = 3})
        \o by_value_and_name({r \in rows : ClassRank(r.asset_class) = 4})
        \o by_value_and_name({r \in rows : ClassRank(r.asset_class) = 5})

\* load_overview_investment_rows: per account the record of its latest date
\* at or before as_of that has positive assets; the account name falls back
\* to the account id
load_overview_investment_rows(records, as_of) ==
    LET positive(a) == {r \in records : /\ r.account_id = a
                                         /\ DatedUpTo(r, as_of)
                                         /\ r.total_assets_cents > 0}
        latest(a)   == CHOOSE t \in {snapshot_text(r) : r \in positive(a)} :
                           \A r \in positive(a) : TextLeq(snapshot_text(r), t)
    IN  by_value_and_name(
            {[account_id |-> r.account_id, account_name |-> r.account_id,
              snapshot_date |-> r.snapshot_date, value_cents |-> r.total_assets_cents] :
                r \in {x \in records : /\ positive(x.account_id) # {}
                                        /\ snapshot_text(x) = latest(x.account_id)}})

\* load_overview_asset_rows: per account and asset class the valuation of
\* its latest date at or before as_of
load_overview_asset_rows(valuations, as_of) ==
    LET upto(v) == {x \in valuations : /\ x.account_id = v.account_id
                                        /\ x.asset_class = v.asset_class
                                        /\ x.snapshot_date <= as_of}
    IN  by_class_value_and_name(
            {v \in valuations : /\ v.snapshot_date <= as_of
                                /\ \A x \in upto(v) : x.snapshot_date <= v.snapshot_date})

\* rows.iter().map(|r| r.value_cents).sum::<i64>()
RECURSIVE sum_of_values(_)
sum_of_values(rows) ==
    IF rows = <<>> THEN 0
    ELSE Head(rows).value_cents + sum_of_values(Tail(rows))

\* selected_rows.iter().filter(asset_class != "liability")
asset_rows_of(selected_rows) ==
    SelectSeq(selected_rows, LAMBDA row : row.asset_class # "liability")

\* selected_rows.iter().filter(asset_class == "liability")
liability_rows_of(selected_rows) ==
    SelectSeq(selected_rows, LAMBDA row : row.asset_class = "liability")

\* map_overview_items and map_asset_items
map_overview_items(rows, effective_as_of, asset_class) ==
    [i \in DOMAIN rows |->
        [asset_class |-> asset_class,
         account_id |-> rows[i].account_id,
         account_name |-> rows[i].account_name,
         snapshot_date |-> FormatDate(rows[i].snapshot_date),
         value_cents |-> rows[i].value_cents,
         stale_days |-> NumDays(effective_as_of, rows[i].snapshot_date)]]

\* the rows of one asset class
rows_of_class(asset_rows, asset_class) ==
    SelectSeq(asset_rows, LAMBDA r : r.asset_class = asset_class)

\* the rows the overview emits: the items of the included classes
selected_rows_of(filters, investment_rows, asset_rows, effective_as_of) ==
    (IF filters.include_investment
     THEN map_overview_items(investment_rows, effective_as_of, "investment") ELSE <<>>)
    \o (IF filters.include_cash
        THEN map_overview_items(rows_of_class(asset_rows, "cash"), effective_as_of, "cash")
        ELSE <<>>)
    \o (IF filters.include_real_estate
        THEN map_overview_items(rows_of_class(asset_rows, "real_estate"),
                                effective_as_of, "real_estate")
        ELSE <<>>)
    \o (IF filters.include_liability
        THEN map_overview_items(rows_of_class(asset_rows, "liability"),
                                effective_as_of, "liability")
        ELSE <<>>)

\* selected_rows_total without the filter on the liability rows: every
\* emitted row is summed as an asset and the liability sum is taken off
selected_rows_total_all_assets(selected_rows) ==
    sum_of_values(selected_rows) - sum_of_values(liability_rows_of(selected_rows))

\* selected_rows_assets_total_cents - selected_rows_liability_total_cents
selected_rows_total(selected_rows) ==
    sum_of_values(asset_rows_of(selected_rows))
        - sum_of_values(liability_rows_of(selected_rows))

\* gross_assets_total: the totals of the included classes other than liability
gross_assets_total_of(filters, investment_total, cash_total, real_estate_total) ==
    (IF filters.include_investment THEN investment_total ELSE 0)
        + (IF filters.include_cash THEN cash_total ELSE 0)
        + (IF filters.include_real_estate THEN real_estate_total ELSE 0)

\* the payload of wealth_overview_query_at_db_path, from the rows loaded
wealth_overview_payload(filters, requested_as_of, effective_as_of, investment_rows, asset_rows) ==
    LET investment_total  == sum_of_values(investment_rows)
        cash_total        == sum_of_values(rows_of_class(asset_rows, "cash"))
        real_estate_total == sum_of_values(rows_of_class(asset_rows, "real_estate"))
        liability_total   == sum_of_values(rows_of_class(asset_rows, "liability"))
        gross_assets_total == gross_assets_total_of(filters, investment_total, cash_total,
                                                    real_estate_total)
        net_asset_total   == gross_assets_total
                               - (IF filters.include_liability THEN liability_total ELSE 0)
        selected_rows     == selected_rows_of(filters, investment_rows, asset_rows,
                                              effective_as_of)
    IN  [as_of |-> FormatDate(effective_as_of),
         requested_as_of |-> FormatDate(requested_as_of),
         filters |-> filters,
         summary |->
            [investment_total_cents |-> investment_total,
             cash_total_cents |-> cash_total,
             real_estate_total_cents |-> real_estate_total,
             liability_total_cents |-> liability_total,
             wealth_total_cents |-> gross_assets_total,
             gross_assets_total_cents |-> gross_assets_total,
             net_asset_total_cents |-> net_asset_total,
             selected_rows_total_cents |-> selected_rows_total(selected_rows),
             selected_rows_assets_total_cents |->
                 sum_of_values(asset_rows_of(selected_rows)),
             selected_rows_liability_total_cents |->
                 sum_of_values(liability_rows_of(selected_rows)),
             reconciliation_delta_cents |->
                 selected_rows_total(selected_rows) - net_asset_total,
             reconciliation_ok |-> selected_rows_total(selected_rows) - net_asset_total = 0,
             stale_account_count |->
                 Cardinality({i \in DOMAIN selected_rows : selected_rows[i].stale_days > 0})],
         rows |-> selected_rows]

\* wealth_overview_query_at_db_path on one state of the two tables
wealth_overview_query(records, valuations, req) ==
    LET filters   == parse_wealth_filters(req.include_investment, req.include_cash,
                                          req.include_real_estate, req.include_liability)
        latest    == query_latest_union_date(records, valuations)
        requested == IF req.as_of = <<>> THEN Ok(latest.val)
                     ELSE parse_iso_date(req.as_of, "as_of")
        effective == IF requested.val < latest.val THEN requested.val ELSE latest.val
    IN  IF ~filters.ok THEN filters
        ELSE IF latest = None THEN Err(<<"no data for the wealth overview">>)
        ELSE IF ~requested.ok THEN requested
        ELSE Ok(wealth_overview_payload(filters.val, requested.val, effective,
                    load_overview_investment_rows(records, effective),
                    load_overview_asset_rows(valuations, effective)))

\* a valuation as upsert_manual_asset_valuation stores it
new_valuation(account_id, asset_class, snapshot_date, value_cents) ==
    [account_id |-> account_id, account_name |-> account_id, asset_class |-> asset_class,
     snapshot_date |-> snapshot_date, value_cents |-> value_cents]

\* the i-th sample date of the ledger
LedgerDate(i) ==
    DaysFromCivil(LedgerDateTexts[i][1], LedgerDateTexts[i][2], LedgerDateTexts[i][3])

\* the valuations a ledger can hold: a cash account valued on two dates, a
\* house and a loan
ValuationPool ==
    {new_valuation("cash_a", "cash", LedgerDate(1), 5),
     new_valuation("cash_a", "cash", LedgerDate(2), 6),
     new_valuation("house", "real_estate", LedgerDate(1), 11),
     new_valuation("loan", "liability", LedgerDate(2), 4)}

\* the ledgers of the wealth queries: at most two investment records beside
\* any of the valuations, or two records one of which a manual upsert has
\* stored without padding, beside none or all of the valuations
WealthLedgerStates ==
    {[records |-> rs, valuations |-> vs] :
        rs \in {x \in LedgerStates : Cardinality(x) <= 2}, vs \in SUBSET ValuationPool}
    \cup
    {[records |-> rs, valuations |-> vs] :
        rs \in {x \in ManualLedgerStates : Cardinality(x) <= 2},
        vs \in {{}, ValuationPool}}

\* the inclusion flags of a request: each omitted or "false", or one of them
\* spelled out or misspelled beside three omitted ones
WealthFlagTexts ==
    [{"investment", "cash", "real_estate", "liability"} -> {"", "false"}]
    \cup {[c \in {"investment", "cash", "real_estate", "liability"} |->
              IF c = k THEN t ELSE ""] :
             k \in {"investment", "cash", "real_estate", "liability"},
             t \in {"true", "0", "maybe"}}

WealthOverviewRequests ==
    {[op |-> "wealth_overview_query", as_of |-> t,
      include_investment |-> f["investment"], include_cash |-> f["cash"],
      include_real_estate |-> f["real_estate"], include_liability |-> f["liability"]] :
        t \in LedgerRawTexts, f \in WealthFlagTexts}

(***************************************************************************)
(* wealth_analytics.rs: the wealth curve.  A row of the curve carries the  *)
(* four class totals of its date, wealth_total_cents, net_asset_total_cents *)
(* and their growth since the first row.                                   *)
(***************************************************************************)
\* query_union_bounds: MIN and MAX of the snapshot dates of both tables
query_union_bounds(records, valuations) ==
    IF records = {} /\ valuations = {} THEN None
    ELSE Some([earliest |->
                   (CHOOSE t \in {snapshot_text(r) : r \in records}
                                 \cup {Padded(v.snapshot_date) : v \in valuations} :
                       \A r \in records, v \in valuations :
                           /\ TextLeq(t, snapshot_text(r))
                           /\ TextLeq(t, Padded(v.snapshot_date))).date,
               latest |-> query_latest_union_date(records, valuations).val])

\* the date statement of the wealth curve: the dates of both tables in
\* [effective_from, effective_to], then both ends pushed, sort_unstable, dedup
wealth_curve_dates(records, valuations, effective_from, effective_to) ==
    SortedSeqOf({r.snapshot_date : r \in {x \in records :
                                              /\ DatedFrom(x, effective_from)
                                              /\ DatedUpTo(x, effective_to)}}
                \cup {v.snapshot_date : v \in {x \in valuations :
                                                  /\ x.snapshot_date >= effective_from
                                                  /\ x.snapshot_date <= effective_to}}
                \cup {effective_from, effective_to})

\* load_investment_history_for_curve
load_investment_history_for_curve(records, effective_to) ==
    history_rows_in_order({r \in records : DatedUpTo(r, effective_to)})

\* rows of account_valuations ORDER BY account_id, snapshot_date, read as
\* AsOfHistoryRow with flow_cents 0
RECURSIVE asset_history_in_order(_)
asset_history_in_order(rows) ==
    IF rows = {} THEN <<>>
    ELSE LET first ==
                 CHOOSE r \in rows : \A o \in rows :
                     \/ NameRank(r.account_id) < NameRank(o.account_id)
                     \/ /\ r.account_id = o.account_id
                        /\ r.snapshot_date <= o.snapshot_date
         IN  <<[account_id |-> first.account_id, snapshot_date |-> first.snapshot_date,
                value_cents |-> first.value_cents, flow_cents |-> 0]>>
             \o asset_history_in_order(rows \ {first})

\* load_asset_history_for_curve
load_asset_history_for_curve(valuations, asset_class, effective_to) ==
    asset_history_in_order({v \in valuations : /\ v.asset_class = asset_class
                                                /\ v.snapshot_date <= effective_to})

\* totals.get(&key).unwrap_or(&0)
total_at(totals, key) == IF key \in DOMAIN totals THEN totals[key] ELSE 0

\* wealth_point summing every class whatever the filters
wealth_point_all_classes(filters, key, inv, cash, re, liability) ==
    [snapshot_date |-> key,
     investment_total_cents |-> inv,
     cash_total_cents |-> cash,
     real_estate_total_cents |-> re,
     liability_total_cents |-> liability,
     wealth_total_cents |-> inv + cash + re,
     net_asset_total_cents |-> inv + cash + re - liability]

\* the totals of one date of the curve: the four classes, wealth and net asset
wealth_point(filters, key, inv, cash, re, liability) ==
    [snapshot_date |-> key,
     investment_total_cents |-> inv,
     cash_total_cents |-> cash,
     real_estate_total_cents |-> re,
     liability_total_cents |-> liability,
     wealth_total_cents |->
         (IF filters.include_investment THEN inv ELSE 0)
             + (IF filters.include_cash THEN cash ELSE 0)
             + (IF filters.include_real_estate THEN re ELSE 0),
     net_asset_total_cents |->
         (IF filters.include_investment THEN inv ELSE 0)
             + (IF filters.include_cash THEN cash ELSE 0)
             + (IF filters.include_real_estate THEN re ELSE 0)
             - (IF filters.include_liability THEN liability ELSE 0)]

\* the row pushed for a date: its totals and their growth since the first row
wealth_curve_row(point, first) ==
    point @@
    [wealth_net_growth_cents |-> point.wealth_total_cents - first.wealth_total_cents,
     liability_net_growth_cents |->
         point.liability_total_cents - first.liability_total_cents,
     net_asset_net_growth_cents |->
         point.net_asset_total_cents - first.net_asset_total_cents,
     investment_net_growth_cents |->
         point.investment_total_cents - first.investment_total_cents,
     cash_net_growth_cents |-> point.cash_total_cents - first.cash_total_cents,
     real_estate_net_growth_cents |->
         point.real_estate_total_cents - first.real_estate_total_cents]

\* the totals of the date dates[i]
wealth_point_at(filters, dates, i, totals) ==
    wealth_point(filters, FormatDate(dates[i]),
                 total_at(totals.investment, FormatDate(dates[i])),
                 total_at(totals.cash, FormatDate(dates[i])),
                 total_at(totals.real_estate, FormatDate(dates[i])),
                 total_at(totals.liability, FormatDate(dates[i])))

\* the loop over dates
wealth_curve_rows(filters, dates, totals) ==
    [i \in DOMAIN dates |->
        wealth_curve_row(wealth_point_at(filters, dates, i, totals),
                         wealth_point_at(filters, dates, 1, totals))]

\* the summary of the wealth curve: the totals of the first and the last row
\* (the per-class entries repeat the pattern of the liability entries)
wealth_curve_summary(first, last) ==
    [start_wealth_cents |-> first.wealth_total_cents,
     end_wealth_cents |-> last.wealth_total_cents,
     change_cents |-> last.wealth_total_cents - first.wealth_total_cents,
     change_pct |-> change_pct_of(first.wealth_total_cents,
                        last.wealth_total_cents - first.wealth_total_cents),
     start_liability_cents |-> first.liability_total_cents,
     end_liability_cents |-> last.liability_total_cents,
     liability_net_growth_cents |->
         last.liability_total_cents - first.liability_total_cents,
     start_net_asset_cents |-> first.net_asset_total_cents,
     end_net_asset_cents |-> last.net_asset_total_cents,
     net_asset_change_cents |->
         last.net_asset_total_cents - first.net_asset_total_cents]

\* the payload of wealth_curve_query_at_db_path (dates is never empty: both
\* ends of the window are among them)
wealth_curve_payload(preset, filters, window, to_raw, rows) ==
    [range |-> [preset |-> preset,
                requested_from |-> FormatDate(window.requested_from),
                requested_to |-> IF to_raw = <<>> THEN FormatDate(window.latest)
                                 ELSE FormatDate(parse_iso_date(to_raw, "to").val),
                effective_from |-> rows[1].snapshot_date,
                effective_to |-> rows[Len(rows)].snapshot_date,
                points |-> Len(rows)],
     filters |-> filters,
     summary |-> wealth_curve_summary(rows[1], rows[Len(rows)]),
     rows |-> rows]

\* the requests of a wealth curve query: the default window, the whole
\* history, a custom window or an unknown preset, with every combination of
\* the inclusion flags or one flag misspelled
WealthCurveRequests ==
    {[op |-> "wealth_curve_query", preset |-> w[1], from |-> w[2], to |-> w[3],
      include_investment |-> f["investment"], include_cash |-> f["cash"],
      include_real_estate |-> f["real_estate"], include_liability |-> f["liability"]] :
        w \in {<<"", <<>>, <<>> >>, <<"since_inception", <<>>, <<>> >>,
               <<"custom", LedgerDateTexts[1], LedgerDateTexts[2]>>,
               <<"weekly", <<>>, <<>> >>},
        f \in [{"investment", "cash", "real_estate", "liability"} -> {"", "false"}]
              \cup {[c \in {"investment", "cash", "real_estate", "liability"} |->
                        IF c = "cash" THEN "maybe" ELSE ""]}}

\* the orders of n things
PermutationsOf(n) ==
    {p \in [1..n -> 1..n] : \A a, b \in 1..n : a # b => p[a] # p[b]}

\* the rows of a history in the order p gives them
ShuffledBy(rows, p) ==
    LET q == SelectSeq(p, LAMBDA i : i <= Len(rows))
    IN  [i \in DOMAIN rows |-> rows[q[i]]]

\* the orders in which a HashMap can iterate over the account ids
AccountOrders ==
    {order \in [1..Cardinality(AccountIds) -> AccountIds] :
        \A a, b \in DOMAIN order : a # b => order[a] # order[b]}

\* the order in which by_account yields the accounts of a history
VisitOrderBy(history_rows, order) ==
    SelectSeq(order, LAMBDA a : a \in accounts_of(history_rows))

\* the reference dates of a window: every date, or the last one alone
WindowReferenceDateLists ==
    {SortedSeqOf(AsofDates),
     <<CHOOSE d \in AsofDates : \A o \in AsofDates : o <= d>>}

(***************************************************************************)
(* Operations                                                              *)
(***************************************************************************)
\* the response of a request that has not been served yet
Pending == [ok |-> FALSE, err |-> <<"pending">>]

\* a request for resolve_window, with the bounds of a scope that has snapshots
InitWindow ==
    /\ request \in {[op |-> "resolve_window", preset |-> preset,
                     from_raw |-> from_raw, to_raw |-> to_raw,
                     earliest |-> earliest, latest |-> latest] :
                        preset \in SUPPORTED_PRESETS,
                        from_raw \in WindowRawTexts, to_raw \in WindowRawTexts,
                        earliest \in WindowDates, latest \in WindowDates}
    /\ request.earliest <= request.latest
    /\ response = Pending
    /\ NoLedger

ResolveWindowCall ==
    /\ request.op = "resolve_window"
    /\ response = Pending
    /\ response' = resolve_window(request.preset, request.from_raw, request.to_raw,
                                  request.earliest, request.latest)
    /\ UNCHANGED <<request, ledger_vars>>

SpecWindow == InitWindow /\ [][ResolveWindowCall]_vars

\* a request for calculate_modified_dietz as the return and curve queries make it
InitDietz ==
    /\ request \in UNION {
          {[op |-> "calculate_modified_dietz",
            begin_date |-> b, end_date |-> e,
            begin_assets_cents |-> bv, end_assets_cents |-> ev,
            flow_rows |-> flows, allow_zero_interval |-> allow] :
               bv \in AssetValues, ev \in AssetValues,
               flows \in FlowLists(b, e), allow \in BOOLEAN} :
          b \in DietzDates, e \in DietzDates}
    /\ response = Pending
    /\ NoLedger

CalculateModifiedDietzCall ==
    /\ request.op = "calculate_modified_dietz"
    /\ response = Pending
    /\ response' = calculate_modified_dietz(
                       request.begin_date, request.end_date,
                       request.begin_assets_cents, request.end_assets_cents,
                       request.flow_rows, request.allow_zero_interval)
    /\ UNCHANGED <<request, ledger_vars>>

SpecDietz == InitDietz /\ [][CalculateModifiedDietzCall]_vars

\* a request for the as-of totals of a history over a reference date list
InitAsof ==
    /\ request \in {[op |-> "build_asof_totals", dates |-> dates,
                     history_rows |-> rows] :
                        dates \in ReferenceDateLists, rows \in HistoryRowLists}
    /\ response = Pending
    /\ NoLedger

BuildAsofTotalsCall ==
    /\ request.op = "build_asof_totals"
    /\ response = Pending
    /\ response' = Ok(build_portfolio_asof_totals(request.dates, request.history_rows))
    /\ UNCHANGED <<request, ledger_vars>>

SpecAsof == InitAsof /\ [][BuildAsofTotalsCall]_vars

\* the aggregator called on rows in any order, its HashMap iterating in any order
InitAsofOrder ==
    /\ \E dates \in WindowReferenceDateLists, rows \in HistoryRowLists,
          p \in PermutationsOf(MaxRows), order \in AccountOrders :
            request = [op |-> "build_asof_totals_visiting", dates |-> dates,
                       history_rows |-> ShuffledBy(rows, p),
                       visit_order |-> VisitOrderBy(rows, order)]
    /\ response = Pending
    /\ NoLedger

BuildAsofTotalsVisitingCall ==
    /\ request.op = "build_asof_totals_visiting"
    /\ response = Pending
    /\ response' = Ok(build_asof_totals_visiting(request.dates, request.history_rows,
                                                 request.visit_order))
    /\ UNCHANGED <<request, ledger_vars>>

SpecAsofOrder == InitAsofOrder /\ [][BuildAsofTotalsVisitingCall]_vars

\* a ledger at rest: the accounts of its records, no import job, no query
LedgerAtRest(records) ==
    /\ investment_records = records
    /\ accounts = {r.account_id : r \in records}
    /\ import_jobs = <<>>
    /\ query = NoQuery
    /\ store_history = {records}
    /\ write_count = 0
    /\ account_valuations = {}

\* a call of a snapshot picker on a ledger, for a window from <= to
InitPicker ==
    /\ request \in
          {[op |-> "select_begin_snapshot", account_id |-> "acct_a",
            window_from |-> f, window_to |-> t] : f \in LedgerDates, t \in LedgerDates}
          \cup
          {[op |-> "select_end_snapshot", account_id |-> "acct_a",
            begin_date |-> f, window_to |-> t] : f \in LedgerDates, t \in LedgerDates}
    /\ \/ request.op = "select_begin_snapshot" /\ request.window_from <= request.window_to
       \/ request.op = "select_end_snapshot" /\ request.begin_date <= request.window_to
    /\ response = Pending
    /\ \E records \in LedgerStates : LedgerAtRest(records)

SelectBeginSnapshotCall ==
    /\ request.op = "select_begin_snapshot"
    /\ response = Pending
    /\ response' = Ok(select_begin_snapshot(investment_records, request.account_id,
                                            request.window_from, request.window_to))
    /\ UNCHANGED <<request, ledger_vars>>

SelectEndSnapshotCall ==
    /\ request.op = "select_end_snapshot"
    /\ response = Pending
    /\ response' = Ok(select_end_snapshot(investment_records, request.account_id,
                                          request.begin_date, request.window_to))
    /\ UNCHANGED <<request, ledger_vars>>

SpecPicker == InitPicker /\ [][SelectBeginSnapshotCall \/ SelectEndSnapshotCall]_vars

\* a return query on a ledger, read as one state
InitReturn ==
    /\ request \in ReturnQueryRequests
    /\ response = Pending
    /\ \E records \in LedgerStates \cup ManualLedgerStates : LedgerAtRest(records)

\* the query has answered: its connection is dropped
QueryDone == [pc |-> "done"]

\* investment_return_query_at_db_path up to the first statement of
\* build_single_account_investment_return_payload: the bounds, then the window
LoadInvestmentAccountBounds ==
    /\ request.op = "investment_return_query"
    /\ request.account_id # PORTFOLIO_ACCOUNT_ID
    /\ response = Pending
    /\ query = NoQuery
    /\ LET preset == parse_preset(request.preset)
           bounds == load_investment_account_bounds(investment_records, request.account_id)
           window == resolve_window(preset.val, request.from, request.to,
                                    bounds.val.earliest, bounds.val.latest)
       IN  IF request.account_id = ""
           THEN response' = Err(<<"account_id is required">>) /\ query' = QueryDone
           ELSE IF ~preset.ok THEN response' = preset /\ query' = QueryDone
           ELSE IF ~bounds.ok THEN response' = bounds /\ query' = QueryDone
           ELSE IF ~window.ok THEN response' = window /\ query' = QueryDone
           ELSE /\ query' = [pc |-> "begin_positive_before", preset |-> preset.val,
                             window |-> window.val]
                /\ UNCHANGED response
    /\ UNCHANGED <<request, investment_records, accounts, import_jobs, store_history, write_count, account_valuations>>

\* select_begin_snapshot, first statement
SelectBeginPositiveBefore ==
    /\ query.pc = "begin_positive_before"
    /\ LET row == begin_positive_before(investment_records, request.account_id,
                                        query.window.effective_from)
       IN  query' = IF row # None
                    THEN [pc |-> "end_positive", preset |-> query.preset,
                          window |-> query.window, begin_row |-> row.val]
                    ELSE [query EXCEPT !.pc = "begin_positive_within"]
    /\ UNCHANGED <<request, response, investment_records, accounts, import_jobs,
                   store_history, write_count, account_valuations>>

\* select_begin_snapshot, second statement
SelectBeginPositiveWithin ==
    /\ query.pc = "begin_positive_within"
    /\ LET row == begin_positive_within(investment_records, request.account_id,
                      query.window.effective_from, query.window.effective_to)
       IN  query' = IF row # None
                    THEN [pc |-> "end_positive", preset |-> query.preset,
                          window |-> query.window, begin_row |-> row.val]
                    ELSE [query EXCEPT !.pc = "begin_any_before"]
    /\ UNCHANGED <<request, response, investment_records, accounts, import_jobs,
                   store_history, write_count, account_valuations>>

\* select_begin_snapshot, third statement; without a row the query fails
SelectBeginAnyBefore ==
    /\ query.pc = "begin_any_before"
    /\ LET row == begin_any_before(investment_records, request.account_id,
                                   query.window.effective_from)
       IN  IF row # None
           THEN /\ query' = [pc |-> "end_positive", preset |-> query.preset,
                             window |-> query.window, begin_row |-> row.val]
                /\ UNCHANGED response
           ELSE /\ response' = Err(<<"no begin asset record in range">>)
                /\ query' = QueryDone
    /\ UNCHANGED <<request, investment_records, accounts, import_jobs, store_history, write_count, account_valuations>>

\* select_end_snapshot, first statement, and the check begin_date >= end_date
SelectEndPositive ==
    /\ query.pc = "end_positive"
    /\ LET row == end_positive_in_range(investment_records, request.account_id,
                      query.begin_row.snapshot_date, query.window.effective_to)
       IN  IF row = None
           THEN query' = [query EXCEPT !.pc = "end_any"] /\ UNCHANGED response
           ELSE IF query.begin_row.snapshot_date >= row.val.snapshot_date
           THEN /\ response' = Err(<<"not enough valid snapshots in range to compute a return">>)
                /\ query' = QueryDone
           ELSE /\ query' = [pc |-> "transfer_rows", preset |-> query.preset,
                             window |-> query.window, begin_row |-> query.begin_row,
                             end_row |-> row.val]
                /\ UNCHANGED response
    /\ UNCHANGED <<request, investment_records, accounts, import_jobs, store_history, write_count, account_valuations>>

\* select_end_snapshot, second statement, and the check begin_date >= end_date
SelectEndAny ==
    /\ query.pc = "end_any"
    /\ LET row == end_any_in_range(investment_records, request.account_id,
                      query.begin_row.snapshot_date, query.window.effective_to)
       IN  IF row = None
           THEN /\ response' = Err(<<"no end asset record in range">>)
                /\ query' = QueryDone
           ELSE IF query.begin_row.snapshot_date >= row.val.snapshot_date
           THEN /\ response' = Err(<<"not enough valid snapshots in range to compute a return">>)
                /\ query' = QueryDone
           ELSE /\ query' = [pc |-> "transfer_rows", preset |-> query.preset,
                             window |-> query.window, begin_row |-> query.begin_row,
                             end_row |-> row.val]
                /\ UNCHANGED response
    /\ UNCHANGED <<request, investment_records, accounts, import_jobs, store_history, write_count, account_valuations>>

\* load_transfer_rows, then calculate_modified_dietz and the payload
LoadTransferRows ==
    /\ query.pc = "transfer_rows"
    /\ LET calc == calculate_modified_dietz(
                       query.begin_row.snapshot_date, query.end_row.snapshot_date,
                       query.begin_row.total_assets_cents,
                       query.end_row.total_assets_cents,
                       load_transfer_rows(investment_records, request.account_id,
                                          query.begin_row.snapshot_date,
                                          query.end_row.snapshot_date),
                       FALSE)
       IN  response' = IF ~calc.ok THEN calc
                       ELSE Ok(return_payload(request.account_id, query.preset,
                                   query.window, request.to,
                                   query.begin_row.snapshot_date,
                                   query.end_row.snapshot_date,
                                   query.begin_row.total_assets_cents,
                                   query.end_row.total_assets_cents, calc.val))
    /\ query' = QueryDone
    /\ UNCHANGED <<request, investment_records, accounts, import_jobs, store_history, write_count, account_valuations>>

\* investment_return_query_at_db_path up to the first statement of
\* build_portfolio_investment_return_payload: the bounds, then the window
LoadPortfolioBounds ==
    /\ request.op = "investment_return_query"
    /\ request.account_id = PORTFOLIO_ACCOUNT_ID
    /\ response = Pending
    /\ query = NoQuery
    /\ LET preset == parse_preset(request.preset)
           bounds == load_portfolio_bounds(investment_records)
           window == resolve_window(preset.val, request.from, request.to,
                                    bounds.val.earliest, bounds.val.latest)
       IN  IF ~preset.ok THEN response' = preset /\ query' = QueryDone
           ELSE IF ~bounds.ok THEN response' = bounds /\ query' = QueryDone
           ELSE IF ~window.ok THEN response' = window /\ query' = QueryDone
           ELSE IF window.val.effective_from >= window.val.effective_to
           THEN /\ response' = Err(<<"not enough valid snapshots in range to compute a return">>)
                /\ query' = QueryDone
           ELSE /\ query' = [pc |-> "portfolio_dates", preset |-> preset.val,
                             window |-> window.val,
                             account_count |-> bounds.val.account_count]
                /\ UNCHANGED response
    /\ UNCHANGED <<request, investment_records, accounts, import_jobs, store_history, write_count, account_valuations>>

\* the statement that reads the snapshot dates of the window
LoadPortfolioDates ==
    /\ query.pc = "portfolio_dates"
    /\ query' = [pc |-> "portfolio_history", preset |-> query.preset,
                 window |-> query.window, account_count |-> query.account_count,
                 dates |-> portfolio_dates(investment_records,
                               query.window.effective_from, query.window.effective_to)]
    /\ UNCHANGED <<request, response, investment_records, accounts, import_jobs,
                   store_history, write_count, account_valuations>>

\* the statement that reads the history rows, then build_portfolio_asof_totals
LoadPortfolioHistory ==
    /\ query.pc = "portfolio_history"
    /\ LET history_rows == portfolio_history_rows(investment_records,
                                                  query.window.effective_to)
           totals == build_portfolio_asof_totals(query.dates, history_rows)
       IN  IF history_rows = <<>>
           THEN /\ response' = Err(<<"no usable investment records in range">>)
                /\ query' = QueryDone
           ELSE /\ query' = [pc |-> "portfolio_flows", preset |-> query.preset,
                             window |-> query.window,
                             account_count |-> query.account_count,
                             begin_assets |-> totals[FormatDate(query.window.effective_from)],
                             end_assets |-> totals[FormatDate(query.window.effective_to)]]
                /\ UNCHANGED response
    /\ UNCHANGED <<request, investment_records, accounts, import_jobs, store_history, write_count, account_valuations>>

\* the statement that reads the flows per date, then calculate_modified_dietz
\* and the payload
LoadPortfolioFlows ==
    /\ query.pc = "portfolio_flows"
    /\ LET calc == calculate_modified_dietz(
                       query.window.effective_from, query.window.effective_to,
                       query.begin_assets, query.end_assets,
                       portfolio_flow_rows(investment_records,
                           query.window.effective_from, query.window.effective_to),
                       FALSE)
       IN  response' = IF ~calc.ok THEN calc
                       ELSE Ok([account_count |-> query.account_count] @@
                               return_payload(PORTFOLIO_ACCOUNT_ID, query.preset,
                                   query.window, request.to,
                                   query.window.effective_from,
                                   query.window.effective_to,
                                   query.begin_assets, query.end_assets, calc.val))
    /\ query' = QueryDone
    /\ UNCHANGED <<request, investment_records, accounts, import_jobs, store_history, write_count, account_valuations>>

\* the statements of a return query, one step each
InvestmentReturnQuery ==
    \/ LoadInvestmentAccountBounds
    \/ SelectBeginPositiveBefore
    \/ SelectBeginPositiveWithin
    \/ SelectBeginAnyBefore
    \/ SelectEndPositive
    \/ SelectEndAny
    \/ LoadTransferRows
    \/ LoadPortfolioBounds
    \/ LoadPortfolioDates
    \/ LoadPortfolioHistory
    \/ LoadPortfolioFlows

\* the return calculation, called directly or by a return query that no
\* writer interleaves with
SpecReturn ==
    (InitDietz \/ InitReturn) /\ [][CalculateModifiedDietzCall \/ InvestmentReturnQuery]_vars

(***************************************************************************)
(* The write requests on a ledger, served one after the other.             *)
(***************************************************************************)
\* how many write requests one run serves
MaxWrites == 2
\* how many rows a file imported between other writes has at most
MaxLedgerFileRows == 1

\* a ledger that holds nothing yet, or what an import left
InitLedger ==
    /\ request = [op |-> "none"]
    /\ response = Pending
    /\ \E records \in {{}} \cup {rs \in ImportedRecordsOf("acct_a") : Cardinality(rs) = 1} :
          LedgerAtRest(records)

\* the effect of a write on the tables
Written(outcome) ==
    /\ investment_records' = outcome.records
    /\ accounts' = outcome.accounts
    /\ store_history' = store_history \cup {outcome.records}
    /\ write_count' = write_count + 1

UpsertManualInvestment ==
    /\ write_count < MaxWrites
    /\ \E req \in UpsertRequests :
          \E outcome \in {upsert_manual_investment(investment_records, accounts, req)} :
             /\ request' = req
             /\ response' = outcome.result
             /\ Written(outcome)
    /\ UNCHANGED <<import_jobs, query, account_valuations>>

UpdateInvestmentRecord ==
    /\ write_count < MaxWrites
    /\ \E req \in UpdateRequests(investment_records) :
          \E outcome \in {update_investment_record(investment_records, accounts, req)} :
             /\ request' = req
             /\ response' = outcome.result
             /\ Written(outcome)
    /\ UNCHANGED <<import_jobs, query, account_valuations>>

DeleteInvestmentRecord ==
    /\ write_count < MaxWrites
    /\ \E req \in DeleteRequests(investment_records) :
          \E outcome \in {delete_investment_record(investment_records, accounts, req)} :
             /\ request' = req
             /\ response' = outcome.result
             /\ Written(outcome)
    /\ UNCHANGED <<import_jobs, query, account_valuations>>

YzxyImportFile ==
    /\ write_count < MaxWrites
    /\ \E file_rows \in ImportFiles(MaxLedgerFileRows) :
          \E outcome \in {yzxy_import_file(investment_records, accounts, file_rows,
                                           "yzxy_csv", Len(import_jobs) + 1)} :
             /\ request' = [op |-> "yzxy_import_file", file_rows |-> file_rows]
             /\ response' = outcome.result
             /\ import_jobs' = Append(import_jobs, outcome.job)
             /\ Written(outcome)
    /\ UNCHANGED <<query, account_valuations>>

SpecLedger ==
    InitLedger /\ [][UpsertManualInvestment \/ UpdateInvestmentRecord
                     \/ DeleteInvestmentRecord \/ YzxyImportFile]_vars

(***************************************************************************)
(* The import of one file, run twice on the same ledger.                   *)
(***************************************************************************)
\* how many rows the imported file has at most
MaxFileRows == 2
\* how many times the file is imported
MaxImportRuns == 2

\* the ledgers a file is imported into: empty, one imported record, or that
\* record after an update moved it
ImportLedgerStates ==
    LET imported == {rs \in ImportedRecordsOf("acct_a") : Cardinality(rs) <= 1}
    IN  imported \cup
        UNION {{update_investment_record(rs, {"acct_a"}, req).records :
                   req \in UpdateRequests(rs)} : rs \in imported}

InitImport ==
    /\ request \in {[op |-> "yzxy_import_file", file_rows |-> file_rows] :
                       file_rows \in ImportFiles(MaxFileRows)}
    /\ response = Pending
    /\ \E records \in ImportLedgerStates : LedgerAtRest(records)

\* one run of the import of the requested file
YzxyImportFileRun ==
    /\ request.op = "yzxy_import_file"
    /\ Len(import_jobs) < MaxImportRuns
    /\ \E outcome \in {yzxy_import_file(investment_records, accounts, request.file_rows,
                                        "yzxy_csv", Len(import_jobs) + 1)} :
          /\ response' = outcome.result
          /\ import_jobs' = Append(import_jobs, outcome.job)
          /\ Written(outcome)
    /\ UNCHANGED <<request, query, account_valuations>>

SpecImport == InitImport /\ [][YzxyImportFileRun]_vars

(***************************************************************************)
(* A return query while other connections write.  The query runs each of   *)
(* its statements on a connection in autocommit mode, outside any          *)
(* transaction, so a write of another connection can commit between two    *)
(* of them.                                                                *)
(***************************************************************************)
\* how many writes commit while the query runs
MaxConcurrentWrites == 1

\* the ledgers of at most two records
ConcurrentLedgerStates == {rs \in LedgerStates : Cardinality(rs) <= 2}

\* the queries: the whole history of the account or of the portfolio, or a
\* custom window over the sample dates
ConcurrentQueryRequests ==
    {r \in ReturnQueryRequests :
        \/ r.preset = "since_inception" /\ r.to = <<>>
        \/ r.preset = "custom" /\ r.from = LedgerDateTexts[1]
                               /\ r.to = LedgerDateTexts[MaxLedgerDates]}

\* the writes of the other connections carry zero-padded date texts
PaddedText(req) == req.snapshot_date.form = "padded"

InitConcurrent ==
    /\ request \in ConcurrentQueryRequests
    /\ response = Pending
    /\ \E records \in ConcurrentLedgerStates : LedgerAtRest(records)

\* a write may commit from the moment the query is received until it answers
QueryInFlight == request.op = "investment_return_query" /\ query # QueryDone

ConcurrentUpsert ==
    /\ QueryInFlight
    /\ write_count < MaxConcurrentWrites
    /\ \E req \in {r \in UpsertRequests : PaddedText(r)} :
          \E outcome \in {upsert_manual_investment(investment_records, accounts, req)} :
             Written(outcome)
    /\ UNCHANGED <<request, response, import_jobs, query, account_valuations>>

ConcurrentUpdate ==
    /\ QueryInFlight
    /\ write_count < MaxConcurrentWrites
    /\ \E req \in {r \in UpdateRequests(investment_records) : PaddedText(r)} :
          \E outcome \in {update_investment_record(investment_records, accounts, req)} :
             Written(outcome)
    /\ UNCHANGED <<request, response, import_jobs, query, account_valuations>>

ConcurrentDelete ==
    /\ QueryInFlight
    /\ write_count < MaxConcurrentWrites
    /\ \E req \in DeleteRequests(investment_records) :
          \E outcome \in {delete_investment_record(investment_records, accounts, req)} :
             Written(outcome)
    /\ UNCHANGED <<request, response, import_jobs, query, account_valuations>>

SpecConcurrent ==
    InitConcurrent /\ [][InvestmentReturnQuery \/ ConcurrentUpsert \/ ConcurrentUpdate
                         \/ ConcurrentDelete]_vars

(***************************************************************************)
(* The wealth overview and wealth curve queries, one step per statement.   *)
(***************************************************************************)
InitWealth ==
    /\ request \in WealthOverviewRequests \cup WealthCurveRequests
    /\ response = Pending
    /\ \E ledger \in WealthLedgerStates :
          /\ investment_records = ledger.records
          /\ accounts = {r.account_id : r \in ledger.records}
          /\ account_valuations = ledger.valuations
          /\ store_history = {ledger.records}
    /\ import_jobs = <<>>
    /\ query = NoQuery
    /\ write_count = 0

\* wealth_overview_query_at_db_path up to the rows: the filters, the latest
\* date of both tables and the effective as_of
QueryLatestUnionDate ==
    /\ request.op = "wealth_overview_query"
    /\ response = Pending
    /\ query = NoQuery
    /\ LET filters   == parse_wealth_filters(request.include_investment,
                            request.include_cash, request.include_real_estate,
                            request.include_liability)
           latest    == query_latest_union_date(investment_records, account_valuations)
           requested == IF request.as_of = <<>> THEN Ok(latest.val)
                        ELSE parse_iso_date(request.as_of, "as_of")
       IN  IF ~filters.ok THEN response' = filters /\ query' = QueryDone
           ELSE IF latest = None
                THEN /\ response' = Err(<<"no data for the wealth overview">>)
                     /\ query' = QueryDone
           ELSE IF ~requested.ok THEN response' = requested /\ query' = QueryDone
           ELSE /\ query' = [pc |-> "overview_investment_rows",
                             filters |-> filters.val,
                             requested_as_of |-> requested.val,
                             effective_as_of |->
                                 IF requested.val < latest.val THEN requested.val
                                 ELSE latest.val]
                /\ UNCHANGED response
    /\ UNCHANGED <<request, investment_records, accounts, import_jobs, store_history,
                   write_count, account_valuations>>

\* load_overview_investment_rows
LoadOverviewInvestmentRows ==
    /\ query.pc = "overview_investment_rows"
    /\ query' = [pc |-> "overview_asset_rows",
                 filters |-> query.filters,
                 requested_as_of |-> query.requested_as_of,
                 effective_as_of |-> query.effective_as_of,
                 investment_rows |->
                     load_overview_investment_rows(investment_records,
                                                   query.effective_as_of)]
    /\ UNCHANGED <<request, response, investment_records, accounts, import_jobs,
                   store_history, write_count, account_valuations>>

\* load_overview_asset_rows, then the totals and the payload
LoadOverviewAssetRows ==
    /\ query.pc = "overview_asset_rows"
    /\ response' = Ok(wealth_overview_payload(query.filters, query.requested_as_of,
                          query.effective_as_of, query.investment_rows,
                          load_overview_asset_rows(account_valuations,
                                                   query.effective_as_of)))
    /\ query' = QueryDone
    /\ UNCHANGED <<request, investment_records, accounts, import_jobs, store_history,
                   write_count, account_valuations>>

WealthOverviewQuery ==
    \/ QueryLatestUnionDate
    \/ LoadOverviewInvestmentRows
    \/ LoadOverviewAssetRows

\* wealth_curve_query_at_db_path up to the window: the preset, the filters
\* and the bounds of both tables
WealthCurveQueryBounds ==
    /\ request.op = "wealth_curve_query"
    /\ response = Pending
    /\ query = NoQuery
    /\ \E preset \in {parse_preset_with_default(request.preset, "1y")},
          filters \in {parse_wealth_filters(request.include_investment,
                           request.include_cash, request.include_real_estate,
                           request.include_liability)},
          bounds \in {query_union_bounds(investment_records, account_valuations)} :
          IF ~preset.ok THEN response' = preset /\ query' = QueryDone
          ELSE IF ~filters.ok THEN response' = filters /\ query' = QueryDone
          ELSE IF bounds = None
          THEN /\ response' = Err(<<"no data to show a curve for">>)
               /\ query' = QueryDone
          ELSE \E window \in {resolve_window(preset.val, request.from, request.to,
                                  bounds.val.earliest, bounds.val.latest)} :
                  IF ~window.ok THEN response' = window /\ query' = QueryDone
                  ELSE /\ query' = [pc |-> "wealth_curve_dates", preset |-> preset.val,
                                    filters |-> filters.val, window |-> window.val]
                       /\ UNCHANGED response
    /\ UNCHANGED <<request, investment_records, accounts, import_jobs, store_history,
                   write_count, account_valuations>>

\* the statement that reads the dates of both tables
WealthCurveLoadDates ==
    /\ query.pc = "wealth_curve_dates"
    /\ query' = [pc |-> "wealth_curve_investment", preset |-> query.preset,
                 filters |-> query.filters, window |-> query.window,
                 dates |-> wealth_curve_dates(investment_records, account_valuations,
                               query.window.effective_from, query.window.effective_to)]
    /\ UNCHANGED <<request, response, investment_records, accounts, import_jobs,
                   store_history, write_count, account_valuations>>

\* load_investment_history_for_curve
WealthCurveLoadInvestmentHistory ==
    /\ query.pc = "wealth_curve_investment"
    /\ query' = [pc |-> "wealth_curve_assets", preset |-> query.preset,
                 filters |-> query.filters, window |-> query.window,
                 dates |-> query.dates,
                 investment_history |->
                     load_investment_history_for_curve(investment_records,
                                                       query.window.effective_to)]
    /\ UNCHANGED <<request, response, investment_records, accounts, import_jobs,
                   store_history, write_count, account_valuations>>

\* the three calls of load_asset_history_for_curve, build_asof_totals for the
\* four classes, the loop over dates and the payload
WealthCurveLoadAssetHistories ==
    /\ query.pc = "wealth_curve_assets"
    /\ response' =
           Ok(wealth_curve_payload(query.preset, query.filters, query.window, request.to,
                  wealth_curve_rows(query.filters, query.dates,
                      [investment |-> build_asof_totals(query.dates,
                                                        query.investment_history),
                       cash |-> build_asof_totals(query.dates,
                                    load_asset_history_for_curve(account_valuations,
                                        "cash", query.window.effective_to)),
                       real_estate |-> build_asof_totals(query.dates,
                                    load_asset_history_for_curve(account_valuations,
                                        "real_estate", query.window.effective_to)),
                       liability |-> build_asof_totals(query.dates,
                                    load_asset_history_for_curve(account_valuations,
                                        "liability", query.window.effective_to))])))
    /\ query' = QueryDone
    /\ UNCHANGED <<request, investment_records, accounts, import_jobs, store_history,
                   write_count, account_valuations>>

\* the steps of a wealth curve query
WealthCurveQuery ==
    \/ WealthCurveQueryBounds
    \/ WealthCurveLoadDates
    \/ WealthCurveLoadInvestmentHistory
    \/ WealthCurveLoadAssetHistories

SpecWealth == InitWealth /\ [][WealthOverviewQuery \/ WealthCurveQuery]_vars

(***************************************************************************)
(* The curve queries on a ledger at rest, one step per call of the         *)
(* builders.                                                               *)
(***************************************************************************)
InitCurve ==
    /\ request \in CurveQueryRequests
    /\ response = Pending
    /\ \E records \in LedgerStates \cup ManualLedgerStates : LedgerAtRest(records)

\* investment_curve_query_at_db_path up to the window of
\* build_single_account_investment_curve_payload
CurveLoadAccountBounds ==
    /\ request.op = "investment_curve_query"
    /\ request.account_id # PORTFOLIO_ACCOUNT_ID
    /\ response = Pending
    /\ query = NoQuery
    /\ LET preset == parse_preset_with_default(request.preset, "1y")
           bounds == load_investment_account_bounds(investment_records, request.account_id)
           window == resolve_window(preset.val, request.from, request.to,
                                    bounds.val.earliest, bounds.val.latest)
       IN  IF request.account_id = ""
           THEN response' = Err(<<"account_id is required">>) /\ query' = QueryDone
           ELSE IF ~preset.ok THEN response' = preset /\ query' = QueryDone
           ELSE IF ~bounds.ok THEN response' = bounds /\ query' = QueryDone
           ELSE IF ~window.ok THEN response' = window /\ query' = QueryDone
           ELSE /\ query' = [pc |-> "curve_begin", preset |-> preset.val,
                             window |-> window.val]
                /\ UNCHANGED response
    /\ UNCHANGED <<request, investment_records, accounts, import_jobs, store_history, write_count, account_valuations>>

\* select_begin_snapshot of the curve; without a row the query fails
CurveSelectBegin ==
    /\ query.pc = "curve_begin"
    /\ \E row \in {select_begin_snapshot(investment_records, request.account_id,
                       query.window.effective_from, query.window.effective_to)} :
          IF row = None
          THEN /\ response' = Err(<<"no begin asset record in range">>)
               /\ query' = QueryDone
          ELSE /\ query' = [pc |-> "curve_final_end", preset |-> query.preset,
                            window |-> query.window, begin_row |-> row.val]
               /\ UNCHANGED response
    /\ UNCHANGED <<request, investment_records, accounts, import_jobs, store_history, write_count, account_valuations>>

\* select_end_snapshot for the end of the curve, and the check
\* final_end_date < begin_date
CurveSelectFinalEnd ==
    /\ query.pc = "curve_final_end"
    /\ \E row \in {select_end_snapshot(investment_records, request.account_id,
                       query.begin_row.snapshot_date, query.window.effective_to)} :
          IF row = None
          THEN /\ response' = Err(<<"no end asset record in range">>)
               /\ query' = QueryDone
          ELSE IF row.val.snapshot_date < query.begin_row.snapshot_date
          THEN /\ response' = Err(<<"not enough valid snapshots in range to build a curve">>)
               /\ query' = QueryDone
          ELSE /\ query' = [pc |-> "curve_dates", preset |-> query.preset,
                            window |-> query.window, begin_row |-> query.begin_row,
                            final_end_date |-> row.val.snapshot_date]
               /\ UNCHANGED response
    /\ UNCHANGED <<request, investment_records, accounts, import_jobs, store_history, write_count, account_valuations>>

\* the statement that reads the candidate dates
CurveLoadCandidateDates ==
    /\ query.pc = "curve_dates"
    /\ query' = [pc |-> "curve_transfers", preset |-> query.preset,
                 window |-> query.window, begin_row |-> query.begin_row,
                 final_end_date |-> query.final_end_date,
                 candidate_dates |->
                     curve_candidate_dates(investment_records, request.account_id,
                         query.begin_row.snapshot_date, query.final_end_date)]
    /\ UNCHANGED <<request, response, investment_records, accounts, import_jobs,
                   store_history, write_count, account_valuations>>

\* the statement that reads the flows per date into transfer_by_date
CurveLoadTransfers ==
    /\ query.pc = "curve_transfers"
    /\ query' = [pc |-> "curve_point", preset |-> query.preset,
                 window |-> query.window, begin_row |-> query.begin_row,
                 final_end_date |-> query.final_end_date,
                 candidate_dates |-> query.candidate_dates,
                 transfer_by_date |->
                     curve_transfer_by_date(investment_records, request.account_id,
                         query.begin_row.snapshot_date, query.final_end_date),
                 next |-> 1, rows |-> <<>>]
    /\ UNCHANGED <<request, response, investment_records, accounts, import_jobs,
                   store_history, write_count, account_valuations>>

\* one pass of the loop over candidate_dates: the date is skipped, the
\* calculation fails and the query with it, or a row is pushed
CurvePoint ==
    /\ query.pc = "curve_point"
    /\ query.next <= Len(query.candidate_dates)
    /\ \E point \in {single_curve_point(investment_records, request.account_id,
                         query.begin_row, query.candidate_dates[query.next],
                         query.transfer_by_date)} :
          IF point = None
          THEN query' = [query EXCEPT !.next = @ + 1] /\ UNCHANGED response
          ELSE IF ~point.val.ok
          THEN response' = point.val /\ query' = QueryDone
          ELSE /\ query' = [query EXCEPT !.next = @ + 1,
                                         !.rows = Append(@, point.val.val)]
               /\ UNCHANGED response
    /\ UNCHANGED <<request, investment_records, accounts, import_jobs, store_history, write_count, account_valuations>>

\* after the loop: the payload of the single-account curve
CurveRespond ==
    /\ query.pc = "curve_point"
    /\ query.next > Len(query.candidate_dates)
    /\ response' = Ok(curve_payload(request.account_id, query.preset, query.window,
                          request.to, query.begin_row.snapshot_date,
                          query.final_end_date, query.rows))
    /\ query' = QueryDone
    /\ UNCHANGED <<request, investment_records, accounts, import_jobs, store_history, write_count, account_valuations>>

\* investment_curve_query_at_db_path up to the window of
\* build_portfolio_investment_curve_payload
CurveLoadPortfolioBounds ==
    /\ request.op = "investment_curve_query"
    /\ request.account_id = PORTFOLIO_ACCOUNT_ID
    /\ response = Pending
    /\ query = NoQuery
    /\ LET preset == parse_preset_with_default(request.preset, "1y")
           bounds == load_portfolio_bounds(investment_records)
           window == resolve_window(preset.val, request.from, request.to,
                                    bounds.val.earliest, bounds.val.latest)
       IN  IF ~preset.ok THEN response' = preset /\ query' = QueryDone
           ELSE IF ~bounds.ok THEN response' = bounds /\ query' = QueryDone
           ELSE IF ~window.ok THEN response' = window /\ query' = QueryDone
           ELSE IF window.val.effective_from > window.val.effective_to
           THEN /\ response' = Err(<<"not enough valid snapshots in range to build a curve">>)
                /\ query' = QueryDone
           ELSE /\ query' = [pc |-> "curve_portfolio_dates", preset |-> preset.val,
                             window |-> window.val,
                             account_count |-> bounds.val.account_count]
                /\ UNCHANGED response
    /\ UNCHANGED <<request, investment_records, accounts, import_jobs, store_history, write_count, account_valuations>>

\* the statement that reads the snapshot dates of the window
CurveLoadPortfolioDates ==
    /\ query.pc = "curve_portfolio_dates"
    /\ query' = [pc |-> "curve_portfolio_history", preset |-> query.preset,
                 window |-> query.window, account_count |-> query.account_count,
                 dates |-> portfolio_dates(investment_records,
                               query.window.effective_from, query.window.effective_to)]
    /\ UNCHANGED <<request, response, investment_records, accounts, import_jobs,
                   store_history, write_count, account_valuations>>

\* the statement that reads the history rows, then build_portfolio_asof_totals
CurveLoadPortfolioHistory ==
    /\ query.pc = "curve_portfolio_history"
    /\ \E history_rows \in {portfolio_history_rows(investment_records,
                                                   query.window.effective_to)} :
          IF history_rows = <<>>
          THEN /\ response' = Err(<<"no usable investment records in range">>)
               /\ query' = QueryDone
          ELSE /\ query' = [pc |-> "curve_portfolio_flows", preset |-> query.preset,
                            window |-> query.window,
                            account_count |-> query.account_count,
                            dates |-> query.dates,
                            totals |-> build_portfolio_asof_totals(query.dates,
                                                                   history_rows)]
               /\ UNCHANGED response
    /\ UNCHANGED <<request, investment_records, accounts, import_jobs, store_history, write_count, account_valuations>>

\* the statement that reads the flows per date into flow_points
CurveLoadPortfolioFlows ==
    /\ query.pc = "curve_portfolio_flows"
    /\ query' = [pc |-> "curve_portfolio_point", preset |-> query.preset,
                 window |-> query.window, account_count |-> query.account_count,
                 dates |-> query.dates, totals |-> query.totals,
                 flow_points |-> portfolio_flow_points(investment_records,
                                     query.window.effective_from,
                                     query.window.effective_to),
                 next |-> 1, rows |-> <<>>]
    /\ UNCHANGED <<request, response, investment_records, accounts, import_jobs,
                   store_history, write_count, account_valuations>>

\* one pass of the loop over dates of the portfolio curve
PortfolioCurvePoint ==
    /\ query.pc = "curve_portfolio_point"
    /\ query.next <= Len(query.dates)
    /\ \E point \in {portfolio_curve_point(query.window.effective_from,
                         query.dates[query.next], query.totals,
                         query.totals[FormatDate(query.window.effective_from)],
                         query.flow_points)} :
          IF point = None
          THEN query' = [query EXCEPT !.next = @ + 1] /\ UNCHANGED response
          ELSE IF ~point.val.ok
          THEN response' = point.val /\ query' = QueryDone
          ELSE /\ query' = [query EXCEPT !.next = @ + 1,
                                         !.rows = Append(@, point.val.val)]
               /\ UNCHANGED response
    /\ UNCHANGED <<request, investment_records, accounts, import_jobs, store_history, write_count, account_valuations>>

\* after the loop: the payload of the portfolio curve
PortfolioCurveRespond ==
    /\ query.pc = "curve_portfolio_point"
    /\ query.next > Len(query.dates)
    /\ response' = Ok([account_count |-> query.account_count] @@
                      curve_payload(PORTFOLIO_ACCOUNT_ID, query.preset, query.window,
                          request.to, query.window.effective_from,
                          query.window.effective_to, query.rows))
    /\ query' = QueryDone
    /\ UNCHANGED <<request, investment_records, accounts, import_jobs, store_history, write_count, account_valuations>>

\* the steps of a curve query
InvestmentCurveQuery ==
    \/ CurveLoadAccountBounds
    \/ CurveSelectBegin
    \/ CurveSelectFinalEnd
    \/ CurveLoadCandidateDates
    \/ CurveLoadTransfers
    \/ CurvePoint
    \/ CurveRespond
    \/ CurveLoadPortfolioBounds
    \/ CurveLoadPortfolioDates
    \/ CurveLoadPortfolioHistory
    \/ CurveLoadPortfolioFlows
    \/ PortfolioCurvePoint
    \/ PortfolioCurveRespond

\* a curve query that no writer interleaves with
SpecCurve == InitCurve /\ [][InvestmentCurveQuery]_vars

(***************************************************************************)
(* The returns listing: investment_returns_query_at_db_path.  A text of a  *)
(* keyword, an account id or an account name is a tuple of characters      *)
(* where the code looks inside it.  The average rate of the summary, which *)
(* no row and no count depends on, is left out, and so are the yuan and    *)
(* percent texts.                                                          *)
(***************************************************************************)
\* the name an account row holds: ensure_account stores the name its id was
\* derived from
AccountNames == [acct_a |-> "a", acct_b |-> "b", acct_c |-> "c"]

\* the characters of the account ids and names
CharsOf ==
    [acct_a |-> <<"a", "c", "c", "t", "_", "a">>,
     acct_b |-> <<"a", "c", "c", "t", "_", "b">>,
     acct_c |-> <<"a", "c", "c", "t", "_", "c">>,
     a |-> <<"a">>,
     b |-> <<"b">>,
     c |-> <<"c">>]

\* the order of the ids and names as texts (bytes)
ListedNamesInOrder == <<"a", "acct_a", "acct_b", "acct_c", "b", "c">>

ListedNameRank(name) == CHOOSE i \in DOMAIN ListedNamesInOrder : ListedNamesInOrder[i] = name

\* char::to_lowercase of the characters of the samples
to_lowercase_char(c) ==
    CASE c = "A" -> "a"
      [] c = "B" -> "b"
      [] OTHER -> c

to_lowercase(text) == [i \in DOMAIN text |-> to_lowercase_char(text[i])]

\* str::trim
RECURSIVE trim(_)
trim(text) ==
    IF text = <<>> THEN <<>>
    ELSE IF Head(text) = " " THEN trim(Tail(text))
    ELSE IF text[Len(text)] = " " THEN trim(SubSeq(text, 1, Len(text) - 1))
    ELSE text

\* str::contains
contains(text, pattern) ==
    \E i \in 0..(Len(text) - Len(pattern)) :
        SubSeq(text, i + 1, i + Len(pattern)) = pattern

\* req.limit.unwrap_or(200).clamp(1, 500)
returns_limit(limit) ==
    IF limit = None THEN 200
    ELSE IF limit.val < 1 THEN 1
    ELSE IF limit.val > 500 THEN 500
    ELSE limit.val

\* the texts of the records of one account
account_texts(records, account_id) ==
    {snapshot_text(r) : r \in {x \in records : x.account_id = account_id}}

\* MIN(snapshot_date) and MAX(snapshot_date) of a group, as texts
min_text(texts) == CHOOSE t \in texts : \A o \in texts : TextLeq(t, o)

max_text(texts) == CHOOSE t \in texts : \A o \in texts : TextLeq(o, t)

\* one row of the account statement: GROUP BY r.account_id, the name
\* COALESCE(a.name, r.account_id)
account_list_row(records, account_ids, account_id) ==
    [account_id |-> account_id,
     account_name |-> IF account_id \in account_ids THEN AccountNames[account_id]
                      ELSE account_id,
     record_count |-> Cardinality(account_texts(records, account_id)),
     first_snapshot_date |-> min_text(account_texts(records, account_id)),
     latest_snapshot_date |-> max_text(account_texts(records, account_id))]

\* ORDER BY latest_snapshot_date DESC, account_name
RECURSIVE account_rows_in_order(_)
account_rows_in_order(rows) ==
    IF rows = {} THEN <<>>
    ELSE LET first ==
                 CHOOSE r \in rows : \A o \in rows :
                     \/ TextLess(o.latest_snapshot_date, r.latest_snapshot_date)
                     \/ /\ o.latest_snapshot_date = r.latest_snapshot_date
                        /\ ListedNameRank(r.account_name) <= ListedNameRank(o.account_name)
         IN  <<first>> \o account_rows_in_order(rows \ {first})

\* the account statement
load_account_rows(records, account_ids) ==
    account_rows_in_order({account_list_row(records, account_ids, a) :
                               a \in {r.account_id : r \in records}})

\* the keyword test of the loop over the account statement
keyword_matches(row, keyword) ==
    \/ keyword = <<>>
    \/ contains(to_lowercase(CharsOf[row.account_id]), keyword)
    \/ contains(to_lowercase(CharsOf[row.account_name]), keyword)

\* the loop over the account statement: rows that fail the keyword test are
\* skipped, and the loop breaks once limit rows are kept
RECURSIVE select_account_rows(_, _, _, _)
select_account_rows(mapped, keyword, limit, account_rows) ==
    IF mapped = <<>> THEN account_rows
    ELSE IF ~keyword_matches(Head(mapped), keyword)
    THEN select_account_rows(Tail(mapped), keyword, limit, account_rows)
    ELSE IF Len(account_rows) + 1 >= limit THEN Append(account_rows, Head(mapped))
    ELSE select_account_rows(Tail(mapped), keyword, limit,
                             Append(account_rows, Head(mapped)))

\* the json! row of an account whose return was computed
returns_row(account_row, payload) ==
    [account_id |-> account_row.account_id,
     account_name |-> account_row.account_name,
     record_count |-> account_row.record_count,
     first_snapshot_date |-> account_row.first_snapshot_date,
     latest_snapshot_date |-> account_row.latest_snapshot_date,
     effective_from |-> payload.range.effective_from,
     effective_to |-> payload.range.effective_to,
     interval_days |-> payload.range.interval_days,
     begin_assets_cents |-> payload.metrics.begin_assets_cents,
     end_assets_cents |-> payload.metrics.end_assets_cents,
     net_flow_cents |-> payload.metrics.net_flow_cents,
     profit_cents |-> payload.metrics.profit_cents,
     net_growth_cents |-> payload.metrics.net_growth_cents,
     return_rate |-> payload.metrics.return_rate,
     annualized_rate |-> payload.metrics.annualized_rate,
     note |-> payload.metrics.note]

\* the json! entry of an account whose return failed
returns_error(account_row, error) ==
    [account_id |-> account_row.account_id,
     account_name |-> account_row.account_name,
     error |-> error]

\* a rate rounded to 8 places, in units of 1e-8
rate_units(rate) == rate.n * (100000000 \div rate.d)

\* an.cmp(bn)
name_cmp(an, bn) ==
    IF ListedNameRank(an) < ListedNameRank(bn) THEN "Less"
    ELSE IF ListedNameRank(an) > ListedNameRank(bn) THEN "Greater"
    ELSE "Equal"

\* the comparator with the rates of a and b undefined before the defined
returns_row_cmp_undefined_first(a, b) ==
    IF a.return_rate # None /\ b.return_rate # None
    THEN IF rate_units(b.return_rate.val) < rate_units(a.return_rate.val) THEN "Less"
         ELSE IF rate_units(b.return_rate.val) > rate_units(a.return_rate.val)
         THEN "Greater"
         ELSE name_cmp(a.account_name, b.account_name)
    ELSE IF a.return_rate # None THEN "Greater"
    ELSE IF b.return_rate # None THEN "Less"
    ELSE name_cmp(a.account_name, b.account_name)

\* the comparator of rows.sort_by: rb.partial_cmp(&ra), then the names; a
\* defined rate before an undefined one; two undefined rates by name
returns_row_cmp(a, b) ==
    IF a.return_rate # None /\ b.return_rate # None
    THEN IF rate_units(b.return_rate.val) < rate_units(a.return_rate.val) THEN "Less"
         ELSE IF rate_units(b.return_rate.val) > rate_units(a.return_rate.val)
         THEN "Greater"
         ELSE name_cmp(a.account_name, b.account_name)
    ELSE IF a.return_rate # None THEN "Less"
    ELSE IF b.return_rate # None THEN "Greater"
    ELSE name_cmp(a.account_name, b.account_name)

\* a row put into sorted rows, after the rows it is not less than
RECURSIVE insert_returns_row(_, _)
insert_returns_row(sorted, row) ==
    IF sorted = <<>> THEN <<row>>
    ELSE IF returns_row_cmp(row, Head(sorted)) = "Less" THEN <<row>> \o sorted
    ELSE <<Head(sorted)>> \o insert_returns_row(Tail(sorted), row)

\* rows.sort_by: a stable sort
RECURSIVE sort_returns_rows(_)
sort_returns_rows(rows) ==
    IF rows = <<>> THEN <<>>
    ELSE insert_returns_row(sort_returns_rows(SubSeq(rows, 1, Len(rows) - 1)),
                            rows[Len(rows)])

\* the json! payload of the listing
returns_payload(preset, from_raw, requested_to_text, limit, keyword, account_rows, rows, errors) ==
    [range |-> [preset |-> preset,
                requested_from |-> from_raw,
                requested_to |-> requested_to_text,
                input_limit |-> limit,
                keyword |-> keyword],
     summary |-> [account_count |-> Len(account_rows),
                  computed_count |-> Len(rows),
                  error_count |-> Len(errors)],
     rows |-> rows,
     errors |-> errors]

\* ledgers of two accounts with at most two records each, beside a third
\* account with at most one record, dated on the first sample date
ListingLedgerStates ==
    {ra \cup rb \cup rc :
        ra \in {x \in ImportedRecordsOf("acct_a") : Cardinality(x) <= 2},
        rb \in {x \in ImportedRecordsOf("acct_b") : Cardinality(x) <= 2},
        rc \in {{}, {new_record("acct_c",
                                Padded(DaysFromCivil(LedgerDateTexts[1][1],
                                                     LedgerDateTexts[1][2],
                                                     LedgerDateTexts[1][3])),
                                7, 0, "yzxy_csv")}}}

\* the keywords and limits of the listing requests
ListingKeywords == {<<>>, <<" ", "_", "B">>, <<"z">>}

ListingLimits == {None, Some(0), Some(1)}

\* the requests of the listing: the whole history with a keyword and a
\* limit, a window up to a date, a custom window, or a preset that is none
ReturnsQueryRequests ==
    {[op |-> "investment_returns_query", preset |-> "since_inception",
      from |-> <<>>, to |-> <<>>, keyword |-> k, limit |-> l] :
        k \in ListingKeywords, l \in ListingLimits}
    \cup
    {[op |-> "investment_returns_query", preset |-> "custom",
      from |-> f, to |-> t, keyword |-> <<>>, limit |-> None] :
        f \in {<<>>, LedgerDateTexts[1]}, t \in LedgerRawTexts}
    \cup
    {[op |-> "investment_returns_query", preset |-> p,
      from |-> <<>>, to |-> t, keyword |-> <<>>, limit |-> None] :
        p \in {"since_inception", "", "weekly"}, t \in LedgerRawTexts}

\* a returns listing on a ledger at rest
InitReturns ==
    /\ request \in ReturnsQueryRequests
    /\ response = Pending
    /\ \E records \in ListingLedgerStates \cup ManualLedgerStates : LedgerAtRest(records)

\* investment_returns_query_at_db_path up to the end of the loop over the
\* account statement: the preset and the dates are checked, then the
\* accounts are listed, filtered by the keyword and cut at the limit
ReturnsLoadAccountRows ==
    /\ request.op = "investment_returns_query"
    /\ response = Pending
    /\ query = NoQuery
    /\ IF ~parse_preset(request.preset).ok
       THEN response' = parse_preset(request.preset) /\ query' = QueryDone
       ELSE IF /\ parse_preset(request.preset).val = "custom"
               /\ ~parse_iso_date(request.from, "from").ok
       THEN response' = parse_iso_date(request.from, "from") /\ query' = QueryDone
       ELSE IF request.to # <<>> /\ ~parse_iso_date(request.to, "to").ok
       THEN response' = parse_iso_date(request.to, "to") /\ query' = QueryDone
       ELSE /\ query' = [pc |-> "returns_accounts",
                         preset |-> parse_preset(request.preset).val,
                         keyword |-> to_lowercase(trim(request.keyword)),
                         limit |-> returns_limit(request.limit),
                         account_rows |->
                             select_account_rows(
                                 load_account_rows(investment_records, accounts),
                                 to_lowercase(trim(request.keyword)),
                                 returns_limit(request.limit), <<>>),
                         next |-> 1, rows |-> <<>>, errors |-> <<>>]
            /\ UNCHANGED response
    /\ UNCHANGED <<request, investment_records, accounts, import_jobs, store_history, write_count, account_valuations>>

\* one turn of the loop over account_rows, handed the payload of the
\* account: a failure is pushed to errors, a payload to rows
ReturnsPushAccount(payload) ==
    /\ query' = [query EXCEPT
                    !.next = @ + 1,
                    !.rows = IF payload.ok
                             THEN Append(@, returns_row(query.account_rows[query.next],
                                                        payload.val))
                             ELSE @,
                    !.errors = IF payload.ok THEN @
                               ELSE Append(@, returns_error(query.account_rows[query.next],
                                                            payload.err))]
    /\ UNCHANGED <<request, response, investment_records, accounts, import_jobs,
                   store_history, write_count, account_valuations>>

\* build_single_account_investment_return_payload for the next account of
\* account_rows (its statements run on the one connection of the listing)
ReturnsComputeAccount ==
    /\ query.pc = "returns_accounts"
    /\ query.next <= Len(query.account_rows)
    /\ ReturnsPushAccount(build_single_account_investment_return_payload(
           investment_records, query.account_rows[query.next].account_id,
           query.preset, request.from, request.to))

\* after the loop: rows.sort_by, then the payload
ReturnsSortAndRespond ==
    /\ query.pc = "returns_accounts"
    /\ query.next > Len(query.account_rows)
    /\ response' = Ok(returns_payload(
                          query.preset, request.from,
                          IF request.to = <<>> THEN <<>>
                          ELSE FormatDate(parse_iso_date(request.to, "to").val),
                          query.limit, query.keyword, query.account_rows,
                          sort_returns_rows(query.rows), query.errors))
    /\ query' = QueryDone
    /\ UNCHANGED <<request, investment_records, accounts, import_jobs, store_history, write_count, account_valuations>>

\* the steps of a returns listing
InvestmentReturnsQuery ==
    \/ ReturnsLoadAccountRows
    \/ ReturnsComputeAccount
    \/ ReturnsSortAndRespond

\* a returns listing that no writer interleaves with
SpecReturns == InitReturns /\ [][InvestmentReturnsQuery]_vars

(***************************************************************************)
(* Properties of the Window Resolver                                       *)
(***************************************************************************)
WindowServed == request.op = "resolve_window" /\ response # Pending

\* a from/to text is well-formed when it is omitted or names a calendar date
WellFormedText(raw) == raw = <<>> \/ parse_iso_date(raw, "text").ok

DateOfText(raw) == parse_iso_date(raw, "text").val

\* the end of the window the specification asks for: the explicit to, or
\* latest when it is omitted, and never later than latest
ExpectedTo ==
    LET wanted == IF request.to_raw = <<>> THEN request.latest
                  ELSE DateOfText(request.to_raw)
    IN  IF wanted <= request.latest THEN wanted ELSE request.latest

\* the first of January of the year date lies in
JanFirstOfYear(date) ==
    CHOOSE d \in (date - 366)..date :
        FormatDate(d) = <<FormatDate(date)[1], 1, 1>>

\* the start the preset asks for, before clipping; custom needs a from text
ExpectedPresetFrom ==
    CASE request.preset = "ytd" -> JanFirstOfYear(ExpectedTo)
      [] request.preset = "1y" -> ExpectedTo - 365
      [] request.preset = "3y" -> ExpectedTo - 1095
      [] request.preset = "since_inception" -> request.earliest
      [] request.preset = "custom" -> DateOfText(request.from_raw)

ExpectedFrom ==
    IF ExpectedPresetFrom >= request.earliest THEN ExpectedPresetFrom
    ELSE request.earliest

\* C1: every window resolve_window returns satisfies
\* earliest <= effective_from <= effective_to <= latest.
C1_WindowWithinBounds ==
    (WindowServed /\ response.ok) =>
        /\ request.earliest <= response.val.effective_from
        /\ response.val.effective_from <= response.val.effective_to
        /\ response.val.effective_to <= request.latest

\* a window was returned although both ends had to be clipped: the preset's
\* start lies before earliest and the explicit to lies after latest
C1_Witness ==
    /\ WindowServed /\ response.ok
    /\ response.val.requested_from < request.earliest
    /\ request.to_raw # <<>>
    /\ DateOfText(request.to_raw) > request.latest
    /\ response.val.effective_from < response.val.effective_to

C8_Literal1y ==
    [op |-> "resolve_window", preset |-> "1y", from_raw |-> <<>>, to_raw |-> <<>>,
     earliest |-> DaysFromCivil(2024, 1, 1), latest |-> DaysFromCivil(2026, 3, 31)]

C8_LiteralYtd ==
    [op |-> "resolve_window", preset |-> "ytd", from_raw |-> <<>>,
     to_raw |-> <<2026, 2, 10>>,
     earliest |-> DaysFromCivil(2024, 1, 1), latest |-> DaysFromCivil(2026, 3, 31)]

\* C8: a returned window has effective_to = min(explicit to or latest, latest)
\* and effective_from = max(preset_from, earliest), preset_from being Jan 1 of
\* effective_to's year (ytd), effective_to - 365 (1y), effective_to - 1095 (3y),
\* earliest (since_inception) or the explicit from (custom); the two literal
\* requests resolve to 2025-03-31..2026-03-31 and to a start of 2026-01-01.
C8_WindowFormula ==
    (WindowServed /\ response.ok) =>
        /\ response.val.effective_to = ExpectedTo
        /\ response.val.requested_from = ExpectedPresetFrom
        /\ response.val.effective_from = ExpectedFrom
        /\ request = C8_Literal1y =>
              /\ FormatDate(response.val.effective_to) = <<2026, 3, 31>>
              /\ FormatDate(response.val.effective_from) = <<2025, 3, 31>>
        /\ request = C8_LiteralYtd =>
              /\ FormatDate(response.val.effective_to) = <<2026, 2, 10>>
              /\ FormatDate(response.val.effective_from) = <<2026, 1, 1>>

\* the literal 1y request has been resolved
C8_Witness ==
    /\ WindowServed /\ response.ok
    /\ request = C8_Literal1y

NoDataError == <<"end date precedes the earliest available record">>
ValidationErrors == {<<"missing field", "from">>, <<"start date is after the end date">>}

\* C9: with well-formed from/to and earliest <= latest, resolve_window fails
\* exactly when the clipped to precedes earliest (NoDataError), when the preset
\* is custom and from is omitted (ValidationError), or when the clipped from
\* exceeds the clipped to (ValidationError); otherwise it returns a window.
\* The NoDataError message differs from both ValidationError messages.
C9_WindowFailures ==
    (/\ WindowServed
     /\ WellFormedText(request.from_raw) /\ WellFormedText(request.to_raw)
     /\ request.earliest <= request.latest) =>
        LET no_data == ExpectedTo < request.earliest
            no_from == request.preset = "custom" /\ request.from_raw = <<>>
            inverted == ~no_from /\ ExpectedFrom > ExpectedTo
        IN  /\ response.ok <=> ~(no_data \/ no_from \/ inverted)
            /\ no_data <=> (~response.ok /\ response.err = NoDataError)
            /\ (~no_data /\ (no_from \/ inverted)) <=>
                   (~response.ok /\ response.err \in ValidationErrors)
            /\ NoDataError \notin ValidationErrors

\* a custom request whose explicit, well-formed from lies after its to was
\* refused with the from-after-to message
C9_Witness ==
    /\ WindowServed
    /\ request.preset = "custom"
    /\ WellFormedText(request.from_raw) /\ request.from_raw # <<>>
    /\ WellFormedText(request.to_raw)
    /\ ~response.ok
    /\ response.err = <<"start date is after the end date">>

(***************************************************************************)
(* Properties of the Return Calculator                                     *)
(***************************************************************************)
DietzServed == request.op = "calculate_modified_dietz" /\ response # Pending

DietzInterval == request.end_date - request.begin_date

\* the sum of the flow amounts
RECURSIVE FlowTotal(_)
FlowTotal(n) ==
    IF n = 0 THEN 0
    ELSE request.flow_rows[n].transfer_amount_cents + FlowTotal(n - 1)

\* the sum over the flows of amount * days from the flow's date to end_date
RECURSIVE FlowDayTotal(_)
FlowDayTotal(n) ==
    IF n = 0 THEN 0
    ELSE request.flow_rows[n].transfer_amount_cents
             * (request.end_date - request.flow_rows[n].snapshot_date)
         + FlowDayTotal(n - 1)

NetFlow == FlowTotal(Len(request.flow_rows))

\* interval_days times the weighted capital
\* begin_value + sum of amount * (end_date - flow_date).days / interval_days
CapitalTimesInterval ==
    request.begin_assets_cents * DietzInterval
        + FlowDayTotal(Len(request.flow_rows))

\* |a - b| <= c / m, for rationals a and b
RatWithin(a, b, c, m) == Abs(a.n * b.d - b.n * a.d) * m <= c * a.d * b.d

\* C2: net_flow is the sum of the flow amounts, profit = end - begin - net_flow,
\* and the reported weighted capital is an integer nearest to
\* begin + sum of amount * (end_date - flow_date).days / interval_days when
\* interval_days > 0, and is the begin value when interval_days = 0.
C2_DietzTerms ==
    (DietzServed /\ response.ok) =>
        /\ response.val.net_flow_cents = NetFlow
        /\ response.val.profit_cents =
               request.end_assets_cents - request.begin_assets_cents - NetFlow
        /\ DietzInterval > 0 =>
               2 * Abs(response.val.weighted_capital_cents * DietzInterval
                         - CapitalTimesInterval) <= DietzInterval
        /\ DietzInterval = 0 =>
               response.val.weighted_capital_cents = request.begin_assets_cents

\* a calculation over two flows whose weighted capital is no whole number of
\* cents, so that the reported value had to be rounded
C2_Witness ==
    /\ DietzServed /\ response.ok
    /\ DietzInterval > 0
    /\ Len(request.flow_rows) = 2
    /\ CapitalTimesInterval % DietzInterval # 0

\* C3 (as claimed): whenever the reported weighted capital is <= 0, return_rate
\* and annualized_rate are undefined and the note is non-empty.
C3_ReportedCapitalRule ==
    (DietzServed /\ response.ok /\ response.val.weighted_capital_cents <= 0) =>
        /\ response.val.return_rate = None
        /\ response.val.annualized_rate = None
        /\ response.val.note # ""

\* C4 (as claimed): with the zero-interval flag set and begin_date = end_date
\* the return_rate is exactly 0 for every begin value, end value and flow list.
C4_ZeroIntervalAlwaysZero ==
    (DietzServed /\ request.allow_zero_interval /\ DietzInterval = 0) =>
        /\ response.ok
        /\ response.val.return_rate = Some(QInt(0))

\* C4 (amended): with the zero-interval flag set and begin_date = end_date the
\* calculation succeeds; return_rate is exactly 0 when the begin value is > 0,
\* and is undefined, with the weighted-capital note, when the begin value is <= 0.
C4_ZeroIntervalPositiveBegin ==
    (DietzServed /\ request.allow_zero_interval /\ DietzInterval = 0) =>
        /\ response.ok
        /\ request.begin_assets_cents > 0 =>
               /\ response.val.return_rate = Some(QInt(0))
               /\ response.val.note = ""
        /\ request.begin_assets_cents <= 0 =>
               /\ response.val.return_rate = None
               /\ response.val.note # ""
        /\ response.val.annualized_rate = None

\* a first curve point: zero interval, positive begin value, another end value
C4_Witness ==
    /\ DietzServed /\ request.allow_zero_interval /\ DietzInterval = 0
    /\ request.begin_assets_cents > 0
    /\ request.end_assets_cents # request.begin_assets_cents
    /\ response.ok
    /\ response.val.return_rate = Some(QInt(0))

\* C5 (as claimed, where the begin value is positive and a rate was
\* computed): with interval_days > 0 and flows of net sum zero, return_rate
\* equals end_value / begin_value - 1.
C5_ZeroNetFlowSimpleReturn ==
    (/\ DietzServed /\ response.ok
     /\ DietzInterval > 0
     /\ request.begin_assets_cents > 0
     /\ NetFlow = 0
     /\ response.val.return_rate # None) =>
        response.val.return_rate =
            Some(Q(request.end_assets_cents - request.begin_assets_cents,
                   request.begin_assets_cents))

\* C5 (amended): with interval_days > 0, a begin value > 0 and no flows in
\* (begin_date, end_date], return_rate is defined and equals
\* end_value / begin_value - 1.
C5_NoFlowSimpleReturn ==
    (/\ DietzServed /\ response.ok
     /\ DietzInterval > 0
     /\ request.begin_assets_cents > 0
     /\ request.flow_rows = <<>>) =>
        /\ response.val.return_rate # None
        /\ QAdd(response.val.return_rate.val, QInt(1)) =
               Q(request.end_assets_cents, request.begin_assets_cents)

\* a return over a flow-free interval with a gain
C5_Witness ==
    /\ DietzServed /\ response.ok
    /\ DietzInterval > 0
    /\ request.flow_rows = <<>>
    /\ request.begin_assets_cents = 100000
    /\ request.end_assets_cents = 120000
    /\ response.val.return_rate = Some(Q(1, 5))

\* C6: annualized_rate is defined exactly when interval_days > 0, return_rate
\* is defined and 1 + return_rate > 0, that is when the weighted capital and
\* profit + weighted capital are both > 0; it is then
\* (1 + return_rate)^(365 / interval_days) - 1.
C6_AnnualizedRate ==
    (DietzServed /\ response.ok) =>
        LET rr == response.val.return_rate
            defined == /\ DietzInterval > 0
                       /\ rr # None
                       /\ rr.val.n + rr.val.d > 0
        IN  /\ (response.val.annualized_rate # None) <=> defined
            /\ defined <=>
                   /\ DietzInterval > 0
                   /\ CapitalTimesInterval > 0
                   /\ response.val.profit_cents * DietzInterval
                          + CapitalTimesInterval > 0
            /\ defined =>
                   /\ response.val.annualized_rate.val.base =
                          Q(rr.val.n + rr.val.d, rr.val.d)
                   /\ response.val.annualized_rate.val.exponent =
                          Q(365, DietzInterval)

\* a loss over an interval with flows whose annualized rate is defined
C6_Witness ==
    /\ DietzServed /\ response.ok
    /\ DietzInterval > 0
    /\ request.flow_rows # <<>>
    /\ response.val.return_rate # None
    /\ response.val.return_rate.val.n < 0
    /\ response.val.annualized_rate # None

\* the literal request: begin 2026-01-01 at 100000, end 2026-06-30 at 120000,
\* one flow of 10000 dated 2026-04-01
C7_LiteralServed ==
    /\ DietzServed
    /\ request.begin_date = DaysFromCivil(2026, 1, 1)
    /\ request.end_date = DaysFromCivil(2026, 6, 30)
    /\ request.begin_assets_cents = 100000
    /\ request.end_assets_cents = 120000
    /\ request.flow_rows = <<[snapshot_date |-> DaysFromCivil(2026, 4, 1),
                              transfer_amount_cents |-> 10000]>>
    /\ ~request.allow_zero_interval

\* C7 (as claimed): the literal request yields net_flow = 10000, profit = 10000,
\* weighted_capital = 100000 + 10000 * (90/181), about 104972, and
\* return_rate = 10000/104972, within 1e-6.
C7_LiteralAsClaimed ==
    C7_LiteralServed =>
        /\ response.ok
        /\ response.val.net_flow_cents = 10000
        /\ response.val.profit_cents = 10000
        /\ response.val.weighted_capital_cents = 104972
        /\ response.val.return_rate # None
        /\ RatWithin(response.val.return_rate.val, Q(10000, 104972), 1, 1000000)

\* C7 (amended): from 2026-01-01 to 2026-06-30 there are 180 days, so the
\* literal request yields net_flow = 10000, profit = 10000,
\* weighted_capital = 100000 + 10000 * (90/180) = 105000 and
\* return_rate = 10000/105000, about 0.095238.
C7_LiteralAmended ==
    C7_LiteralServed =>
        /\ response.ok
        /\ response.val.interval_days = 180
        /\ response.val.net_flow_cents = 10000
        /\ response.val.profit_cents = 10000
        /\ response.val.weighted_capital_cents = 105000
        /\ response.val.return_rate = Some(Q(10000, 105000))
        /\ RatWithin(response.val.return_rate.val, Q(95238, 1000000), 1, 1000000)

\* the literal request has been answered
C7_Witness == C7_LiteralServed /\ response.ok

(***************************************************************************)
(* Properties of the As-Of Aggregator                                      *)
(***************************************************************************)
AsofServed == request.op = "build_asof_totals" /\ response # Pending

\* totals(d) for a reference date d
TotalAt(d) == response.val[FormatDate(d)]

\* C10: step-function law.  For a history of exactly one snapshot, dated d0
\* with value v, and a sorted, duplicate-free reference date list, totals(d) = 0
\* for every reference date d < d0 and totals(d) = v for every d >= d0.
C10_StepFunction ==
    (AsofServed /\ Len(request.history_rows) = 1) =>
        LET snapshot == request.history_rows[1]
        IN  \A j \in DOMAIN request.dates :
                TotalAt(request.dates[j]) =
                    IF request.dates[j] < snapshot.snapshot_date
                    THEN 0
                    ELSE snapshot.value_cents

\* a single snapshot of nonzero value dated d0, queried before d0, on d0 and
\* after d0
C10_Witness ==
    /\ AsofServed
    /\ Len(request.history_rows) = 1
    /\ request.history_rows[1].value_cents # 0
    /\ \E i, j, k \in DOMAIN request.dates :
          /\ request.dates[i] < request.history_rows[1].snapshot_date
          /\ request.dates[j] = request.history_rows[1].snapshot_date
          /\ request.dates[k] > request.history_rows[1].snapshot_date
          /\ TotalAt(request.dates[i]) = 0
          /\ TotalAt(request.dates[k]) = request.history_rows[1].value_cents

\* history_rows without its i-th row
WithoutRow(history_rows, i) ==
    SubSeq(history_rows, 1, i - 1) \o SubSeq(history_rows, i + 1, Len(history_rows))

\* C11: no look-ahead.  Adding a snapshot dated s to any entity leaves
\* totals(d) unchanged for every reference date d < s: the totals of a history
\* agree, on every reference date before the date of any one of its rows, with
\* the totals of the history that lacks that row.
C11_NoLookAhead ==
    AsofServed =>
        \A i \in DOMAIN request.history_rows :
            LET added == request.history_rows[i]
                before == build_portfolio_asof_totals(
                              request.dates, WithoutRow(request.history_rows, i))
            IN  \A j \in DOMAIN request.dates :
                    request.dates[j] < added.snapshot_date =>
                        TotalAt(request.dates[j]) = before[FormatDate(request.dates[j])]

\* a snapshot added to an entity that already has an earlier one, with a
\* reference date before it and a reference date at or after it whose total
\* it changes
C11_Witness ==
    /\ AsofServed
    /\ \E i \in DOMAIN request.history_rows :
          LET added == request.history_rows[i]
              before == build_portfolio_asof_totals(
                            request.dates, WithoutRow(request.history_rows, i))
          IN  /\ \E h \in DOMAIN request.history_rows :
                    /\ request.history_rows[h].account_id = added.account_id
                    /\ request.history_rows[h].snapshot_date < added.snapshot_date
              /\ \E j, k \in DOMAIN request.dates :
                    /\ request.dates[j] < added.snapshot_date
                    /\ request.dates[k] >= added.snapshot_date
                    /\ TotalAt(request.dates[j]) # 0
                    /\ TotalAt(request.dates[j]) = before[FormatDate(request.dates[j])]
                    /\ TotalAt(request.dates[k]) # before[FormatDate(request.dates[k])]

\* the snapshots of one entity dated at or before d, in date order
SnapshotsUpTo(account_id, d) ==
    SelectSeq(request.history_rows,
              LAMBDA r : r.account_id = account_id /\ r.snapshot_date <= d)

\* the value held after the first k of a list of snapshots: a snapshot of
\* value 0 with a nonzero flow keeps a positive held value, any other
\* snapshot sets the held value to its own
RECURSIVE HeldAfter(_, _)
HeldAfter(snapshots, k) ==
    IF k = 0 THEN 0
    ELSE LET held == HeldAfter(snapshots, k - 1)
             s == snapshots[k]
         IN  IF s.value_cents = 0 /\ s.flow_cents # 0 /\ held > 0
             THEN held
             ELSE s.value_cents

\* the sum of the held values of a set of entities at d
RECURSIVE HeldTotal(_, _)
HeldTotal(account_ids, d) ==
    IF account_ids = {} THEN 0
    ELSE LET a == CHOOSE x \in account_ids : TRUE
         IN  HeldAfter(SnapshotsUpTo(a, d), Len(SnapshotsUpTo(a, d)))
             + HeldTotal(account_ids \ {a}, d)

\* C20: retention rule.  In the per-entity walk a snapshot with value 0 and a
\* nonzero flow, met while the current value is positive, leaves the current
\* value unchanged; any other snapshot sets it to its value; at each reference
\* date every entity contributes the value held after all its snapshots dated
\* at or before that date.
C20_RetentionRule ==
    AsofServed =>
        \A j \in DOMAIN request.dates :
            TotalAt(request.dates[j]) = HeldTotal(AccountIds, request.dates[j])

\* an entity holding 7 meets a snapshot of value 0 with flow 3: the total at a
\* reference date on or after that snapshot is still 7
C20_Witness ==
    /\ AsofServed
    /\ Len(request.history_rows) = 2
    /\ request.history_rows[1].account_id = request.history_rows[2].account_id
    /\ request.history_rows[1].value_cents = 7
    /\ request.history_rows[2].value_cents = 0
    /\ request.history_rows[2].flow_cents = 3
    /\ \E j \in DOMAIN request.dates :
          /\ request.dates[j] >= request.history_rows[2].snapshot_date
          /\ TotalAt(request.dates[j]) = 7

\* the rows of a history as a query returns them: ORDER BY account_id,
\* snapshot_date
RECURSIVE OrderedByAccountAndDate(_)
OrderedByAccountAndDate(rows) ==
    IF rows = <<>> THEN <<>>
    ELSE LET first ==
                 CHOOSE i \in DOMAIN rows : \A j \in DOMAIN rows :
                     \/ AccountRank(rows[i].account_id) < AccountRank(rows[j].account_id)
                     \/ /\ rows[i].account_id = rows[j].account_id
                        /\ rows[i].snapshot_date <= rows[j].snapshot_date
         IN  <<rows[first]>> \o OrderedByAccountAndDate(WithoutRow(rows, first))

AsofOrderServed == request.op = "build_asof_totals_visiting" /\ response # Pending

BeginServed == request.op = "select_begin_snapshot" /\ response # Pending

EndServed == request.op = "select_end_snapshot" /\ response # Pending

\* the snapshots of the entity the picker is asked about
EntitySnapshots == {r \in investment_records : r.account_id = request.account_id}

\* picked is the snapshot of S with the latest date
IsLatestOf(picked, S) ==
    /\ picked # None
    /\ \E r \in S : /\ r.snapshot_date = picked.val.snapshot_date
                    /\ r.total_assets_cents = picked.val.total_assets_cents
    /\ \A r \in S : r.snapshot_date <= picked.val.snapshot_date

\* picked is the snapshot of S with the earliest date
IsEarliestOf(picked, S) ==
    /\ picked # None
    /\ \E r \in S : /\ r.snapshot_date = picked.val.snapshot_date
                    /\ r.total_assets_cents = picked.val.total_assets_cents
    /\ \A r \in S : r.snapshot_date >= picked.val.snapshot_date

PositiveAtOrBeforeFrom ==
    {r \in EntitySnapshots : r.total_assets_cents > 0 /\ r.snapshot_date <= request.window_from}

PositiveInWindow ==
    {r \in EntitySnapshots : /\ r.total_assets_cents > 0
                             /\ r.snapshot_date >= request.window_from
                             /\ r.snapshot_date <= request.window_to}

AnyAtOrBeforeFrom == {r \in EntitySnapshots : r.snapshot_date <= request.window_from}

SnapshotsInRange ==
    {r \in EntitySnapshots : /\ r.snapshot_date >= request.begin_date
                             /\ r.snapshot_date <= request.window_to}

ReturnQueryServed == request.op = "investment_return_query" /\ query = QueryDone

ValidationError == Err(<<"end date must not precede the begin date">>)

InsufficientDataError ==
    Err(<<"not enough valid snapshots in range to compute a return">>)

\* the window of the served return query: over the bounds of the account, or
\* of all records for the portfolio
QueryBounds ==
    IF request.account_id = PORTFOLIO_ACCOUNT_ID
    THEN load_portfolio_bounds(investment_records)
    ELSE load_investment_account_bounds(investment_records, request.account_id)

QueryWindow ==
    resolve_window(parse_preset(request.preset).val, request.from, request.to,
                   QueryBounds.val.earliest, QueryBounds.val.latest)

\* the begin and end snapshots the single-account query selects
SelectedBegin ==
    select_begin_snapshot(investment_records, request.account_id,
                          QueryWindow.val.effective_from, QueryWindow.val.effective_to)

SelectedEnd ==
    select_end_snapshot(investment_records, request.account_id,
                        SelectedBegin.val.snapshot_date, QueryWindow.val.effective_to)

\* the begin date of the query is not strictly before its end date
BeginNotBeforeEnd ==
    /\ QueryBounds.ok
    /\ QueryWindow.ok
    /\ IF request.account_id = PORTFOLIO_ACCOUNT_ID
       THEN QueryWindow.val.effective_from >= QueryWindow.val.effective_to
       ELSE /\ SelectedBegin # None
            /\ SelectedEnd # None
            /\ SelectedBegin.val.snapshot_date >= SelectedEnd.val.snapshot_date

\* C19: every ReturnResult has interval_days >= 0, and interval_days = 0 occurs
\* only with the zero-interval flag of the curve points: calculate_modified_dietz
\* fails with the validation error when end_date < begin_date and with the
\* insufficient-data error when end_date = begin_date and the flag is unset, and
\* the single-account and portfolio return queries fail with the
\* insufficient-data error when the selected begin date is not strictly before
\* the end date, so their results have interval_days > 0.
C19_IntervalNeverNegative ==
    /\ DietzServed =>
          /\ request.end_date < request.begin_date => response = ValidationError
          /\ request.end_date = request.begin_date /\ ~request.allow_zero_interval =>
                response = InsufficientDataError
          /\ response.ok =>
                /\ response.val.interval_days >= 0
                /\ response.val.interval_days = 0 => request.allow_zero_interval
    /\ ReturnQueryServed =>
          /\ BeginNotBeforeEnd => response = InsufficientDataError
          /\ response.ok =>
                /\ response.val.range.interval_days > 0
                /\ response.val.range.interval_days =
                       DateOfText(response.val.range.effective_to)
                       - DateOfText(response.val.range.effective_from)

\* a return query on an account whose window holds one snapshot: begin and end
\* are the same snapshot and the query fails
C19_Witness ==
    /\ ReturnQueryServed
    /\ request.account_id # PORTFOLIO_ACCOUNT_ID
    /\ BeginNotBeforeEnd
    /\ SelectedBegin.val.snapshot_date = SelectedEnd.val.snapshot_date
    /\ response = InsufficientDataError

(***************************************************************************)
(* Properties of the writers                                               *)
(***************************************************************************)
\* the records of an account on a calendar date
RecordsOn(account_id, d) ==
    {r \in investment_records : r.account_id = account_id /\ r.snapshot_date = d}

UpsertSucceeded == request.op = "upsert_manual_investment" /\ response.ok

\* C15: after any sequence of upserts, updates, deletes and imports the store
\* holds at most one record per account and date, and after a successful
\* upsert of (account, date, value, flow) every record of that account and
\* date carries the value and the flow just written.
C15_OneRecordPerAccountAndDate ==
    /\ \A r \in investment_records :
          Cardinality(RecordsOn(r.account_id, r.snapshot_date)) <= 1
    /\ UpsertSucceeded =>
          \A r \in RecordsOn(response.val.account_id, response.val.snapshot_date.date) :
             /\ r.total_assets_cents = request.total_assets_cents
             /\ r.transfer_amount_cents = request.transfer_amount_cents

\* the content of the records: account, date text, value and flow
LedgerContent(records) ==
    {<<r.account_id, snapshot_text(r), r.total_assets_cents, r.transfer_amount_cents>> :
        r \in records}

\* the step that imports the file for the second time
SecondImportRun == Len(import_jobs) = 1 /\ Len(import_jobs') = 2

\* the ledger is the same after the second run as after the first, the count
\* of imported rows too, and the run adds one import job
ReimportKeepsLedger ==
    /\ LedgerContent(investment_records') = LedgerContent(investment_records)
    /\ accounts' = accounts
    /\ response'.val.imported_count = response.val.imported_count
    /\ Len(import_jobs') = Len(import_jobs) + 1

\* C16 as stated: importing the same file a second time leaves the records
\* and the accounts as they were after the first import, reports the same
\* imported_count and zero errors, and each run adds exactly one import job.
C16_ReimportReportsNoErrors ==
    [][/\ Len(import_jobs') = Len(import_jobs) + 1
       /\ SecondImportRun => /\ ReimportKeepsLedger
                             /\ response'.val.error_count = 0]_vars

\* C16: importing the same file a second time leaves the records and the
\* accounts as they were after the first import and reports the same
\* imported_count and the same error_count as the first run, which counts
\* the rows the file has rejected; each run adds exactly one import job.
C16_ReimportIdempotent ==
    [][/\ Len(import_jobs') = Len(import_jobs) + 1
       /\ SecondImportRun =>
             /\ ReimportKeepsLedger
             /\ response'.val.error_count = response.val.error_count
             /\ response'.val.error_count >= parse_input_file(request.file_rows).errors]_vars

\* a second run that imported a row and rejected another
C16_Witness ==
    /\ request.op = "yzxy_import_file"
    /\ Len(import_jobs) = 2
    /\ response.val.imported_count >= 1
    /\ response.val.error_count >= 1
    /\ import_jobs[1].imported_count >= 1

(***************************************************************************)
(* Properties of a query among concurrent writes                           *)
(***************************************************************************)
\* the outcome of the served query when all its statements read the store s
AtomicOutcome(s) ==
    investment_return_query(s, request.account_id, request.preset, request.from,
                            request.to)

\* C14: a return query that runs while other requests write computes from
\* its own read snapshot: its outcome equals the outcome of the same query
\* run atomically on one of the states the store had during the query.
C14_OutcomeOfOneStoreState ==
    ReturnQueryServed => \E s \in store_history : response = AtomicOutcome(s)

(***************************************************************************)
(* Properties of the wealth overview                                       *)
(***************************************************************************)
WealthOverviewServed == request.op = "wealth_overview_query" /\ query = QueryDone

\* the sum of the values of the emitted rows of the classes in a set
RECURSIVE EmittedTotal(_, _)
EmittedTotal(rows, classes) ==
    IF rows = <<>> THEN 0
    ELSE (IF Head(rows).asset_class \in classes THEN Head(rows).value_cents ELSE 0)
         + EmittedTotal(Tail(rows), classes)

\* every emitted row is of one class, and no account is emitted under two
NoClassInTwoBuckets(rows) ==
    \A i, j \in DOMAIN rows :
        rows[i].account_id = rows[j].account_id /\ rows[i].asset_class = rows[j].asset_class
            => i = j

\* C12: in the wealth overview reconciliation_delta_cents, the sum of the
\* emitted non-liability rows minus the sum of the emitted liability rows
\* minus net_asset_total, is 0 and reconciliation_ok is true, whenever no
\* asset class is in more than one bucket, for every combination of the
\* inclusion flags with at least one flag set.
C12_ReconciliationHolds ==
    WealthOverviewServed /\ response.ok /\ NoClassInTwoBuckets(response.val.rows) =>
        /\ response.val.summary.reconciliation_delta_cents
              = EmittedTotal(response.val.rows, {"investment", "cash", "real_estate"})
                  - EmittedTotal(response.val.rows, {"liability"})
                  - response.val.summary.net_asset_total_cents
        /\ response.val.summary.reconciliation_delta_cents = 0
        /\ response.val.summary.reconciliation_ok

\* an overview with the loan and another class included, the loan emitted
C12_Witness ==
    /\ WealthOverviewServed
    /\ response.ok
    /\ response.val.filters.include_liability
    /\ response.val.filters.include_cash
    /\ ~response.val.filters.include_investment
    /\ \E i, j \in DOMAIN response.val.rows :
          /\ response.val.rows[i].asset_class = "liability"
          /\ response.val.rows[j].asset_class = "cash"
    /\ response.val.summary.net_asset_total_cents # 0

\* the reference date of a served overview, as a day number
OverviewAsOf ==
    DaysFromCivil(response.val.as_of[1], response.val.as_of[2], response.val.as_of[3])

\* the dates, up to d, of the snapshots of the account of an emitted row
SnapshotDatesOf(row, d) ==
    IF row.asset_class = "investment"
    THEN {r.snapshot_date : r \in {x \in investment_records :
                                      x.account_id = row.account_id /\ x.snapshot_date <= d}}
    ELSE {v.snapshot_date : v \in {x \in account_valuations :
                                      /\ x.account_id = row.account_id
                                      /\ x.asset_class = row.asset_class
                                      /\ x.snapshot_date <= d}}

\* C26: every row of the wealth overview carries stale_days = the effective
\* as_of minus the date of the account's last snapshot at or before it, so
\* stale_days >= 0, and 0 exactly when the account has a snapshot on the
\* reference date.
C26_StaleDaysSinceLastSnapshot ==
    WealthOverviewServed /\ response.ok =>
        \A i \in DOMAIN response.val.rows :
            LET row   == response.val.rows[i]
                dates == SnapshotDatesOf(row, OverviewAsOf)
            IN  /\ dates # {}
                /\ \E last \in dates :
                      /\ \A d \in dates : d <= last
                      /\ row.stale_days = OverviewAsOf - last
                /\ row.stale_days >= 0
                /\ row.stale_days = 0 <=> OverviewAsOf \in dates

\* a single-account return query, served, whose account has a snapshot and
\* whose window has been resolved
SingleAccountWindowResolved ==
    /\ ReturnQueryServed
    /\ request.account_id # PORTFOLIO_ACCOUNT_ID
    /\ parse_preset(request.preset).ok
    /\ QueryBounds.ok
    /\ QueryWindow.ok

\* C28: for a single account with at least one snapshot and a resolved window,
\* read in one store state, select_begin_snapshot finds a begin snapshot and
\* select_end_snapshot finds an end snapshot dated at or after it; so the "no
\* begin record" and "no end record" failures are unreachable and the only
\* failure of the return query after the window is begin_date = end_date.
C28_SnapshotsAlwaysFound ==
    SingleAccountWindowResolved =>
        /\ SelectedBegin # None
        /\ SelectedEnd # None
        /\ SelectedEnd.val.snapshot_date >= SelectedBegin.val.snapshot_date
        /\ ~response.ok =>
              /\ response = InsufficientDataError
              /\ SelectedBegin.val.snapshot_date = SelectedEnd.val.snapshot_date

\* the begin and end dates a served return names
ReturnBegin == DateOfText(response.val.range.effective_from)

ReturnEnd == DateOfText(response.val.range.effective_to)

\* the records of the entity of the return query with a nonzero flow dated, as
\* calendar dates, strictly after begin_date and at or before end_date
FlowRecordsOfReturn ==
    {r \in investment_records :
        /\ request.account_id # PORTFOLIO_ACCOUNT_ID => r.account_id = request.account_id
        /\ r.transfer_amount_cents # 0
        /\ r.snapshot_date > ReturnBegin
        /\ r.snapshot_date <= ReturnEnd}

\* the net flow of a date, and the dates whose net flow is not zero
NetFlowOn(d) == sum_of_transfers({r \in FlowRecordsOfReturn : r.snapshot_date = d})

NetFlowDates == {d \in {r.snapshot_date : r \in FlowRecordsOfReturn} : NetFlowOn(d) # 0}

\* C21: the flows entering a return calculation anchored at begin_date and
\* ending at end_date are exactly the nonzero net flows dated strictly after
\* begin_date and at or before end_date: one entry per such date, none for
\* another date (so none dated on begin_date), net_flow is their sum, a flow
\* dated on end_date has weight 0, and every weight lies in [0, 1).
C21_FlowsOfTheInterval ==
    ReturnQueryServed /\ response.ok =>
        LET flows == response.val.cash_flows
            interval == response.val.range.interval_days
        IN  /\ Len(flows) = Cardinality(NetFlowDates)
            /\ \A i \in DOMAIN flows :
                  LET d == DateOfText(flows[i].snapshot_date)
                  IN  /\ d \in NetFlowDates
                      /\ d > ReturnBegin /\ d <= ReturnEnd
                      /\ flows[i].transfer_amount_cents = NetFlowOn(d)
                      /\ flows[i].weight = round_to_6(Q(ReturnEnd - d, interval))
                      /\ flows[i].weight.n >= 0
                      /\ flows[i].weight.n < flows[i].weight.d
                      /\ d = ReturnEnd => flows[i].weight.n = 0
                      /\ \A j \in DOMAIN flows :
                            j # i => flows[j].snapshot_date # flows[i].snapshot_date
            /\ response.val.metrics.net_flow_cents = sum_of_transfers(FlowRecordsOfReturn)

(***************************************************************************)
(* Properties of the curves                                                *)
(***************************************************************************)
CurveQueryServed == request.op = "investment_curve_query" /\ response # Pending

\* the records of the entity a curve query is about
CurveRecords ==
    IF request.account_id = PORTFOLIO_ACCOUNT_ID THEN investment_records
    ELSE {r \in investment_records : r.account_id = request.account_id}

\* the entity has no snapshot at all, so no begin snapshot exists
CurveBeginMissing == CurveRecords = {}

\* the window asked for is empty: an explicit from dated after the explicit to
CurveWindowEmpty ==
    /\ request.preset = "custom"
    /\ request.from # <<>> /\ request.to # <<>>
    /\ DateOfText(request.from) > DateOfText(request.to)

empty_curve_result ==
    /\ response.ok
    /\ response.val.summary.count = 0
    /\ response.val.summary.change_pct = None
    /\ response.val.summary.end_cumulative_return_rate = None
    /\ response.val.rows = <<>>

\* C24: a curve request that can produce no rows, because the begin snapshot
\* is missing or the window is empty, is answered with the explicit
\* empty-curve result (count 0, null percentage fields, no rows), not with an
\* error.
C24_EmptyCurveInsteadOfError ==
    (CurveQueryServed /\ (CurveBeginMissing \/ CurveWindowEmpty)) => empty_curve_result

\* the weighted capital of a point: the begin value plus the weighted flows
CurvePointCapital(begin_date, begin_assets, flow_rows, end_date) ==
    IF end_date <= begin_date THEN QInt(begin_assets)
    ELSE QAdd(QInt(begin_assets),
              weighted_flow_upto(flow_rows, Len(flow_rows), end_date,
                                 NumDays(end_date, begin_date)))

\* the rows of the single-account curve built so far: one per candidate date
\* passed, none over a negative interval, none with a return over a
\* non-positive capital
SingleCurveRowsSoFar ==
    query.pc = "curve_point" =>
        /\ Len(query.rows) = query.next - 1
        /\ \A i \in DOMAIN query.rows :
              /\ query.rows[i].snapshot_date = FormatDate(query.candidate_dates[i])
              /\ DateOfText(query.rows[i].effective_snapshot_date)
                     >= query.begin_row.snapshot_date
              /\ QLeZero(CurvePointCapital(
                     query.begin_row.snapshot_date, query.begin_row.total_assets_cents,
                     load_transfer_rows(investment_records, request.account_id,
                         query.begin_row.snapshot_date,
                         DateOfText(query.rows[i].effective_snapshot_date)),
                     DateOfText(query.rows[i].effective_snapshot_date)))
                   => query.rows[i].cumulative_return_rate = None

PortfolioCurveRowsSoFar ==
    query.pc = "curve_portfolio_point" =>
        /\ Len(query.rows) = query.next - 1
        /\ \A i \in DOMAIN query.rows :
              /\ query.rows[i].snapshot_date = FormatDate(query.dates[i])
              /\ query.dates[i] >= query.window.effective_from
              /\ QLeZero(CurvePointCapital(
                     query.window.effective_from,
                     query.totals[FormatDate(query.window.effective_from)],
                     portfolio_point_flows(query.flow_points, query.dates[i]),
                     query.dates[i]))
                   => query.rows[i].cumulative_return_rate = None

\* the failures of the steps that follow the begin anchor
AnchoredCurveFailures ==
    IF request.account_id = PORTFOLIO_ACCOUNT_ID
    THEN {<<"end date must not precede the begin date">>}
    ELSE {<<"no end asset record in range">>,
          <<"not enough valid snapshots in range to build a curve">>,
          <<"end date must not precede the begin date">>}

\* C22: once the window is resolved and the begin anchor is fixed, building a
\* curve (single-account or portfolio) cannot fail: every candidate date
\* yields exactly one row, the per-point calculation is never invoked with a
\* negative interval, and a non-positive weighted capital at a point gives a
\* row with an undefined cumulative return instead of aborting the curve.
C22_CurveCannotFailOnceAnchored ==
    /\ (CurveQueryServed /\ ~response.ok) => response.err \notin AnchoredCurveFailures
    /\ SingleCurveRowsSoFar
    /\ PortfolioCurveRowsSoFar

\* a curve query answered with at least one row
CurveWithRows == CurveQueryServed /\ response.ok /\ response.val.rows # <<>>

CurveFirstRow == response.val.rows[1]

CurveLastRow == response.val.rows[Len(response.val.rows)]

\* C23: in every non-empty curve result the summary is a function of the
\* first and last emitted rows only: count is the number of rows, the start
\* value is the first row's value, the end value the last row's, the change
\* their difference, the percentage change is defined only when the first
\* value is positive, the ending cumulative growth is the last row's growth
\* and the ending cumulative return the last row's return (undefined when
\* that row's is).
C23_SummaryOfFirstAndLastRows ==
    CurveWithRows =>
        /\ response.val.summary.count = Len(response.val.rows)
        /\ response.val.summary.start_assets_cents = CurveFirstRow.total_assets_cents
        /\ response.val.summary.end_assets_cents = CurveLastRow.total_assets_cents
        /\ response.val.summary.change_cents =
               CurveLastRow.total_assets_cents - CurveFirstRow.total_assets_cents
        /\ response.val.summary.change_pct # None => CurveFirstRow.total_assets_cents > 0
        /\ CurveFirstRow.total_assets_cents > 0 =>
               response.val.summary.change_pct =
                   Some(round_to_8(Q(response.val.summary.change_cents,
                                     CurveFirstRow.total_assets_cents)))
        /\ response.val.summary.end_net_growth_cents =
               CurveLastRow.cumulative_net_growth_cents
        /\ response.val.summary.end_cumulative_return_rate =
               CurveLastRow.cumulative_return_rate

\* a curve of several rows whose value changed from a positive first value and
\* whose last row has a cumulative return
C23_Witness ==
    /\ CurveWithRows
    /\ Len(response.val.rows) >= 2
    /\ CurveFirstRow.total_assets_cents > 0
    /\ response.val.summary.change_cents # 0
    /\ response.val.summary.change_pct # None
    /\ CurveLastRow.cumulative_return_rate # None
    /\ CurveLastRow.cumulative_net_growth_cents # 0

\* the preset a curve query resolves, and the return query of the same
\* account or portfolio with that preset and the same from/to on the same ledger
CurvePreset == parse_preset_with_default(request.preset, "1y")

ReturnOfCurveRequest ==
    investment_return_query(investment_records, request.account_id, CurvePreset.val,
                            request.from, request.to)

\* C29: for the same account (or the portfolio), the same preset and the same
\* from/to over the same data, whenever the return query succeeds the curve
\* query also succeeds and its last row agrees with it: the last row's value
\* is the return's end value, its cumulative growth the return's profit, its
\* cumulative return the return's return_rate (both undefined together); and
\* the curve's first row has the begin date, the begin value and cumulative
\* growth 0.
C29_CurveAgreesWithReturn ==
    (CurveQueryServed /\ CurvePreset.ok /\ ReturnOfCurveRequest.ok) =>
        /\ CurveWithRows
        /\ CurveLastRow.total_assets_cents =
               ReturnOfCurveRequest.val.metrics.end_assets_cents
        /\ CurveLastRow.cumulative_net_growth_cents =
               ReturnOfCurveRequest.val.metrics.profit_cents
        /\ CurveLastRow.cumulative_return_rate =
               ReturnOfCurveRequest.val.metrics.return_rate
        /\ CurveFirstRow.snapshot_date = ReturnOfCurveRequest.val.range.effective_from
        /\ CurveFirstRow.total_assets_cents =
               ReturnOfCurveRequest.val.metrics.begin_assets_cents
        /\ CurveFirstRow.cumulative_net_growth_cents = 0

(***************************************************************************)
(* Properties of the wealth curve and of the inclusion flags               *)
(***************************************************************************)
WealthQueryRequested == request.op \in {"wealth_overview_query", "wealth_curve_query"}

WealthCurveServed == request.op = "wealth_curve_query" /\ query = QueryDone

\* whether the request includes an asset class (a flag left out includes it)
Included(raw) == parse_bool_param(raw, TRUE) = Ok(TRUE)

AllFlagsFalse ==
    /\ parse_bool_param(request.include_investment, TRUE) = Ok(FALSE)
    /\ parse_bool_param(request.include_cash, TRUE) = Ok(FALSE)
    /\ parse_bool_param(request.include_real_estate, TRUE) = Ok(FALSE)
    /\ parse_bool_param(request.include_liability, TRUE) = Ok(FALSE)

\* the sum of the class totals of the included classes other than liability,
\* and that sum less the liability total when liability is included
GrossOfIncluded(inv, cash, re) ==
    (IF Included(request.include_investment) THEN inv ELSE 0)
        + (IF Included(request.include_cash) THEN cash ELSE 0)
        + (IF Included(request.include_real_estate) THEN re ELSE 0)

NetOfIncluded(gross, liability) ==
    IF Included(request.include_liability) THEN gross - liability ELSE gross

\* gross and net of the overview and of every row of the wealth curve
InclusionArithmetic ==
    /\ (WealthOverviewServed /\ response.ok) =>
          /\ response.val.summary.gross_assets_total_cents =
                 GrossOfIncluded(response.val.summary.investment_total_cents,
                                 response.val.summary.cash_total_cents,
                                 response.val.summary.real_estate_total_cents)
          /\ response.val.summary.net_asset_total_cents =
                 NetOfIncluded(response.val.summary.gross_assets_total_cents,
                               response.val.summary.liability_total_cents)
    /\ (WealthCurveServed /\ response.ok) =>
          \A i \in DOMAIN response.val.rows :
              /\ response.val.rows[i].wealth_total_cents =
                     GrossOfIncluded(response.val.rows[i].investment_total_cents,
                                     response.val.rows[i].cash_total_cents,
                                     response.val.rows[i].real_estate_total_cents)
              /\ response.val.rows[i].net_asset_total_cents =
                     NetOfIncluded(response.val.rows[i].wealth_total_cents,
                                   response.val.rows[i].liability_total_cents)

\* the validation errors of a request whose flags are all false: the one of
\* the filters, or the one of the preset, which the curve parses first
FlagValidationErrors ==
    IF request.op = "wealth_curve_query"
    THEN {<<"at least one asset class must be selected">>,
          <<"unsupported preset", request.preset>>}
    ELSE {<<"at least one asset class must be selected">>}

\* C25: for every combination of the four inclusion flags: if all are false
\* the wealth overview and the wealth curve fail with a validation error
\* before reading any data (the answer is given by the first step, which runs
\* no statement); otherwise gross_assets is the sum of the class totals of
\* exactly the included classes among investment, cash and real_estate, and
\* net = gross_assets - liability_total if liability is included, else net =
\* gross_assets; this holds for the overview and for every wealth-curve row.
C25_InclusionFlags ==
    [][/\ (WealthQueryRequested /\ AllFlagsFalse /\ response' # response) =>
              /\ query = NoQuery
              /\ ~response'.ok
              /\ response'.err \in FlagValidationErrors
       /\ InclusionArithmetic']_vars

\* a wealth curve of several rows served with cash excluded and liability
\* included, a row of which has investments, cash and a liability
C25_Witness ==
    /\ WealthCurveServed /\ response.ok
    /\ ~Included(request.include_cash)
    /\ Included(request.include_investment) /\ Included(request.include_liability)
    /\ Len(response.val.rows) >= 2
    /\ \E i \in DOMAIN response.val.rows :
          /\ response.val.rows[i].investment_total_cents > 0
          /\ response.val.rows[i].cash_total_cents > 0
          /\ response.val.rows[i].liability_total_cents > 0

\* the wealth overview of the same ledger and flags with as_of = the date text
OverviewAt(date_text) ==
    wealth_overview_query(investment_records, account_valuations,
        [as_of |-> date_text,
         include_investment |-> request.include_investment,
         include_cash |-> request.include_cash,
         include_real_estate |-> request.include_real_estate,
         include_liability |-> request.include_liability])

\* C27: for each asset class (investment, cash, real_estate, liability) and
\* every reference date D not later than the latest snapshot, the class total
\* the wealth overview reports with as_of = D equals the total of the As-Of
\* Aggregator for that class at D, which is the class total the wealth curve
\* reports in its row for D.
C27_OverviewTotalsAreAsOfTotals ==
    (WealthCurveServed /\ response.ok) =>
        \A i \in DOMAIN response.val.rows :
            /\ OverviewAt(response.val.rows[i].snapshot_date).ok
            /\ OverviewAt(response.val.rows[i].snapshot_date).val.summary.investment_total_cents
                   = response.val.rows[i].investment_total_cents
            /\ OverviewAt(response.val.rows[i].snapshot_date).val.summary.cash_total_cents
                   = response.val.rows[i].cash_total_cents
            /\ OverviewAt(response.val.rows[i].snapshot_date).val.summary.real_estate_total_cents
                   = response.val.rows[i].real_estate_total_cents
            /\ OverviewAt(response.val.rows[i].snapshot_date).val.summary.liability_total_cents
                   = response.val.rows[i].liability_total_cents

(***************************************************************************)
(* Properties of the returns listing                                       *)
(***************************************************************************)
ReturnsQueryServed == request.op = "investment_returns_query" /\ query = QueryDone

\* the checks of the request that precede the account statement
ReturnsRequestValid ==
    /\ parse_preset(request.preset).ok
    /\ parse_preset(request.preset).val = "custom" => parse_iso_date(request.from, "from").ok
    /\ request.to # <<>> => parse_iso_date(request.to, "to").ok

\* the accounts the listing selects from the store
SelectedAccountRows ==
    select_account_rows(load_account_rows(investment_records, accounts),
                        to_lowercase(trim(request.keyword)),
                        returns_limit(request.limit), <<>>)

\* the return of one account, asked for on its own
ReturnOfListedAccount(account_id) ==
    build_single_account_investment_return_payload(
        investment_records, account_id, parse_preset(request.preset).val,
        request.from, request.to)

\* the positions of an account in rows or in errors
PlacesOf(entries, account_id) == {i \in DOMAIN entries : entries[i].account_id = account_id}

\* rows in the order claimed: by return_rate descending, equal rates by
\* account name, every undefined rate after every defined one
RowsInClaimedOrder(rows) ==
    \A i \in DOMAIN rows : \A j \in DOMAIN rows :
        i < j =>
            /\ rows[i].return_rate = None => rows[j].return_rate = None
            /\ (rows[i].return_rate # None /\ rows[j].return_rate # None) =>
                   \/ rate_units(rows[i].return_rate.val) > rate_units(rows[j].return_rate.val)
                   \/ /\ rows[i].return_rate = rows[j].return_rate
                      /\ ListedNameRank(rows[i].account_name)
                             <= ListedNameRank(rows[j].account_name)

\* C30: in the returns listing a failure of one account's return never aborts
\* the request: a valid request is answered, every selected account is found
\* exactly once, in errors if its return fails and in rows if not, so
\* account_count = computed_count + error_count; and rows are ordered by
\* return_rate descending, equal rates by account name, the rows without a
\* rate after all rows with one.
C30_ListingKeepsEveryAccount ==
    ReturnsQueryServed =>
        /\ response.ok = ReturnsRequestValid
        /\ response.ok =>
               /\ \A k \in DOMAIN SelectedAccountRows :
                      LET a == SelectedAccountRows[k].account_id
                      IN  /\ Cardinality(PlacesOf(response.val.rows, a))
                                 + Cardinality(PlacesOf(response.val.errors, a)) = 1
                          /\ (PlacesOf(response.val.errors, a) # {})
                                 = ~ReturnOfListedAccount(a).ok
               /\ Len(response.val.rows) + Len(response.val.errors)
                      = Len(SelectedAccountRows)
               /\ response.val.summary.account_count = Len(SelectedAccountRows)
               /\ response.val.summary.computed_count = Len(response.val.rows)
               /\ response.val.summary.error_count = Len(response.val.errors)
               /\ response.val.summary.account_count
                      = response.val.summary.computed_count
                            + response.val.summary.error_count
               /\ RowsInClaimedOrder(response.val.rows)

\* a listing of three accounts: one fails, two are computed with different
\* rates
C30_Witness ==
    /\ ReturnsQueryServed
    /\ response.ok
    /\ Len(response.val.errors) = 1
    /\ Len(response.val.rows) = 2
    /\ response.val.rows[1].return_rate # None
    /\ response.val.rows[2].return_rate # None
    /\ response.val.rows[1].return_rate # response.val.rows[2].return_rate
    /\ response.val.rows[1].account_name = "b"

====
